---- MODULE Spec2Model ----
(***************************************************************************)
(* Entity-Component-System runtime of when-society-falls.                  *)
(*                                                                         *)
(* Entity (src/ecs/entity.py) and Component (src/ecs/component.py) are     *)
(* translated from their source.  World (src/ecs/world.py) is not part of  *)
(* the available sources: its registry, indexes, query and tick are        *)
(* modelled from the design document (sections 3, 4.2 and 5).              *)
(*                                                                         *)
(* PlayerSystem (src/systems/player_system.py) and PlayerController        *)
(* (src/components/player_controller.py) are translated from their source; *)
(* Transform and RigidBody (src/components/transform.py, physics.py) are    *)
(* not part of the available sources and are the plain records the player  *)
(* system reads and writes.                                                *)
(***************************************************************************)
EXTENDS Integers, Sequences, FiniteSets, TLC

\* ---------------------------------------------------------------- bounds
MaxEntities == 2     \* Entity objects ever constructed
MaxComps    == 3     \* Component instances the callers own
MaxSystems  == 2     \* System objects that can be registered
MaxTickEntities == 1 \* Entity objects constructed in the runs that tick the World
MaxFaultEntities == 1 \* Entity objects constructed in the runs with raising hooks
MaxHookCalls == 1    \* hook calls of a method that may pass before one raises
MaxLookupEntities == 1 \* Entity objects constructed in the runs with lookups
MaxPlayers  == 2     \* player entities of a scene
MaxFrames   == 4     \* ticks of a scene in the runs that follow the interact key
MaxMoveFrames == 1   \* ticks of a scene in the runs that move the player
MaxEvents   == 2     \* events pygame.event.get() returns in one frame
MaxRecent   == 3     \* most recent calls on the InputManager that are remembered
MaxCallbacks == 1    \* callbacks registered with the InputManager
MaxScenes   == 2     \* scene objects handed to set_scene
MaxStaleEntities == 1 \* Entity objects constructed in the runs that use stale handles
MaxHookEntities == 1 \* Entity objects constructed in the runs with hooks that mutate
MaxSceneChanges == 2 \* set_scene calls of a run
MaxEveryEntities == 2 \* Entity objects constructed in the runs with a System requiring nothing

\* Python's None, for object references held as integers
None == 0

\* entity_id=None: no id is supplied to Entity.__init__ / create_entity
NoId == -1

\* Ids the callers supply to create_entity; 0 is a falsy value
SuppliedIds == {0, 1}

Handles  == 1..MaxEntities          \* Entity objects (handles callers keep)
Comps    == 1..MaxComps             \* Component instances
Systems  == 1..MaxSystems           \* System instances
Types    == {"A", "B"}              \* component classes
Tags     == {"enemy"}               \* tag values

\* The exception Entity.add_component raises for a duplicate component type;
\* the design document calls it DuplicateComponentError.
DuplicateComponentError == "ValueError"

\* The components of the k-th player entity of a scene
PlayerControllerOf(k) == 10 + k
TransformOf(k)        == 20 + k
RigidBodyOf(k)        == 30 + k

\* Component.get_component_type(): the class of the instance
get_component_type(c) ==
    IF c > 30 THEN "RigidBody"
    ELSE IF c > 20 THEN "Transform"
    ELSE IF c > 10 THEN "PlayerController"
    ELSE IF c % 2 = 1 THEN "A" ELSE "B"

\* The PlayerSystem instance of a scene
PlayerSystem == 10

\* A System whose required_components is the empty set
EverySystem == 20

\* System.required_components of the system instances
required_components(s) ==
    IF s = PlayerSystem THEN {"PlayerController", "Transform"}
    ELSE IF s = EverySystem THEN {}
    ELSE IF s % 3 = 1 THEN {"A"} ELSE IF s % 3 = 2 THEN {"A", "B"} ELSE {"B"}

\* str(uuid.uuid4()) for the h-th Entity object: a value no caller supplies
uuid4(h) == 100 + h

VARIABLES
    numCreated,   \* number of Entity objects constructed so far
    entityId,     \* Entity.id          per handle
    components,   \* Entity.components  per handle: ordered dict, <<type, comp>> pairs
    tags,         \* Entity.tags        per handle
    active,       \* Entity.active      per handle
    compEntity,   \* Component.entity   per component instance
    registry,     \* World: id -> Entity
    typeIndex,    \* World: component type -> set of ids
    tagIndex,     \* World: tag -> set of ids
    activeView,   \* World: ids seen as active
    systems,      \* World: registered systems, in order
    tickPos,      \* 0 outside tick(); k while the k-th system processes
    invoked,      \* current (or last) tick: each system invoked, with the list it got
    destroyed,    \* Entity objects whose destroy() has returned
    tickFailure,  \* current (or last) tick: the turn in which a call failed, and how
    psys,         \* PlayerSystem: keys_pressed, keys_just_pressed, previous_keys, player_entities
    ctrl,         \* PlayerController fields, per instance
    transform,    \* Transform fields, per instance
    rigid,        \* RigidBody fields, per instance
    frame,        \* the last PlayerSystem.process call: dt, list, callbacks fired, entities processed
    input,        \* InputManager: pressed/down/up sets of keys and mouse buttons, mouse position
    app,          \* Application: quit_requested, current_scene, position in run(), events of the frame
    inputLog,     \* the calls made on the InputManager: the most recent ones, the last event per key
    last          \* the last call: operation, arguments, outcome, hook/notification events

vars == <<numCreated, entityId, components, tags, active, compEntity, registry,
          typeIndex, tagIndex, activeView, systems, tickPos, invoked, destroyed,
          tickFailure, psys, ctrl, transform, rigid, frame, input, app, inputLog,
          last>>

\* The state of the player system and of the components it works on
playerVars == <<psys, ctrl, transform, rigid, frame>>

\* The state of the Application and its InputManager
inputVars == <<input, app, inputLog>>

\* The state of the World, its entities and systems
worldVars == <<numCreated, entityId, components, tags, active, compEntity, registry,
               typeIndex, tagIndex, activeView, systems, tickPos, invoked, destroyed,
               tickFailure, last>>

\* ------------------------------------------------------------------- floats
\* Python floats (move_speed, dt, positions, velocities) are binary floating
\* point numbers rounded to nearest, ties to even, after every operation.
\* A float is [m, e], value m * 2^e, with MantissaBits significant bits
\* (0 is [0, 0]); the mantissa is narrower than the 53 bits of a double so
\* that products stay machine integers.
MantissaBits == 14

RECURSIVE Pow2(_)
Pow2(n) == IF n = 0 THEN 1 ELSE 2 * Pow2(n - 1)

Abs(x) == IF x < 0 THEN -x ELSE x
Sign(x) == IF x < 0 THEN -1 ELSE 1

\* Number of bits of a natural number
RECURSIVE BitLen(_)
BitLen(n) == IF n = 0 THEN 0 ELSE 1 + BitLen(n \div 2)

\* The float nearest to m * 2^e (ties to even)
Round(m, e) ==
    LET n == Abs(m)
        k == BitLen(n) - MantissaBits
    IN IF m = 0 THEN [m |-> 0, e |-> 0]
       ELSE IF k <= 0 THEN [m |-> m * Pow2(-k), e |-> e + k]
       ELSE LET q    == n \div Pow2(k)
                r    == n % Pow2(k)
                half == Pow2(k - 1)
                up   == r > half \/ (r = half /\ q % 2 = 1)
                q1   == IF up THEN q + 1 ELSE q
            IN IF q1 = Pow2(MantissaBits)
               THEN [m |-> Sign(m) * (q1 \div 2), e |-> e + k + 1]
               ELSE [m |-> Sign(m) * q1, e |-> e + k]

\* float(n) of an integer, and the literal n/d
FInt(n) == Round(n, 0)
FNeg(a) == [m |-> -a.m, e |-> a.e]

\* a * b
FMul(a, b) == Round(a.m * b.m, a.e + b.e)

\* a / b (b is not zero): the quotient with guard bits and a sticky bit
FDiv(a, b) ==
    LET n == Abs(a.m) * Pow2(MantissaBits + 2)
        q == n \div Abs(b.m)
        sticky == IF n % Abs(b.m) = 0 THEN 0 ELSE 1
    IN Round(Sign(a.m) * Sign(b.m) * (2 * q + sticky),
             a.e - b.e - (MantissaBits + 2) - 1)

FLit(n, d) == FDiv(FInt(n), FInt(d))

\* a + b: the operand of smaller exponent is aligned to the other one
FAdd(a, b) ==
    LET hi == IF a.e >= b.e THEN a ELSE b
        lo == IF a.e >= b.e THEN b ELSE a
        d  == hi.e - lo.e
    IN IF lo.m = 0 THEN hi
       ELSE IF hi.m = 0 THEN lo
       ELSE IF d > MantissaBits + 2 THEN hi
       ELSE Round(hi.m * Pow2(d) + lo.m, lo.e)

\* Largest r with r * r <= n, searched between lo and hi
RECURSIVE ISqrt(_, _, _)
ISqrt(n, lo, hi) ==
    IF lo >= hi THEN lo
    ELSE LET mid == (lo + hi + 1) \div 2
         IN IF mid * mid <= n THEN ISqrt(n, mid, hi) ELSE ISqrt(n, lo, mid - 1)

\* a ** 0.5 for a >= 0
FSqrt(a) ==
    LET k == IF (a.e - (MantissaBits + 2)) % 2 = 0
             THEN MantissaBits + 2 ELSE MantissaBits + 3
        n == a.m * Pow2(k)
        r == ISqrt(n, 0, 46340)
        sticky == IF r * r = n THEN 0 ELSE 1
    IN IF a.m = 0 THEN a
       ELSE Round(2 * r + sticky, ((a.e - k) \div 2) - 1)

\* a <= b on the values
FLeq(a, b) ==
    IF a.m <= 0 /\ b.m >= 0 THEN TRUE
    ELSE IF a.m > 0 /\ b.m <= 0 THEN FALSE
    ELSE IF a.m > 0 THEN a.e < b.e \/ (a.e = b.e /\ a.m <= b.m)
    ELSE a.e > b.e \/ (a.e = b.e /\ a.m <= b.m)

\* ------------------------------------------------------- ordered dict helpers
Keys(d)      == [i \in 1..Len(d) |-> d[i][1]]
KeySet(d)    == {d[i][1] : i \in 1..Len(d)}
ValueSet(d)  == {d[i][2] : i \in 1..Len(d)}
DictGet(d, k) ==
    IF k \in KeySet(d) THEN d[CHOOSE i \in 1..Len(d) : d[i][1] = k][2] ELSE None
DictDel(d, k) == SelectSeq(d, LAMBDA p : p[1] # k)
DictSet(d, k, v) ==
    IF k \in KeySet(d) THEN [i \in 1..Len(d) |-> IF d[i][1] = k THEN <<k, v>> ELSE d[i]]
    ELSE Append(d, <<k, v>>)

\* ------------------------------------------------------------ program state
\* Component subclasses override on_add / on_remove; an overriding hook may
\* raise.  A fault names the hook that raises during a call and how many
\* calls of that hook pass before; NoFault is the base hooks (pass).
NoFault == [hook |-> "", after |-> 0]
HookFaults == {[hook |-> k, after |-> n] : k \in {"on_add", "on_remove"},
                                           n \in 0..MaxHookCalls}

\* The mutable state as one value, so that a method is a function of it.
Cur ==
    [ numCreated |-> numCreated, entityId |-> entityId, components |-> components,
      tags |-> tags, active |-> active, compEntity |-> compEntity,
      registry |-> registry, typeIndex |-> typeIndex, tagIndex |-> tagIndex,
      activeView |-> activeView, systems |-> systems,
      events |-> <<>>, raised |-> "", ret |-> None, fault |-> NoFault ]

\* One hook call or World notification, with what holds at that moment.
Event(kind, h, c, linked, indexed, backref) ==
    [ev |-> kind, h |-> h, c |-> c, linked |-> linked, indexed |-> indexed,
     backref |-> backref]

Emit(s, e) == [s EXCEPT !.events = Append(@, e)]

\* The hook called now is the one the fault makes raise
HookRaises(s, kind) ==
    /\ s.fault.hook = kind
    /\ Len(SelectSeq(s.events, LAMBDA e : e.ev = kind)) = s.fault.after

\* The exception of a raising hook leaves the hook
Raise(s, raises) == IF raises THEN [s EXCEPT !.raised = "HookError"] ELSE s

\* ------------------------------------------------------------------ Component
\* Component._set_entity
_set_entity(s, c, h) == [s EXCEPT !.compEntity[c] = h]

\* Component.on_add: the base hook does nothing; the call is recorded with
\* what the component can see of its entity and of the World at that moment.
on_add(s, c) ==
    LET h == s.compEntity[c]
        T == get_component_type(c)
    IN Raise(Emit(s, Event("on_add", h, c,
                           h # None /\ DictGet(s.components[h], T) = c,
                           h # None /\ s.entityId[h] \in s.typeIndex[T],
                           h)),
             HookRaises(s, "on_add"))

\* Component.on_remove, called for component c of entity h
on_remove(s, h, c) ==
    LET T == get_component_type(c)
    IN Raise(Emit(s, Event("on_remove", h, c,
                           DictGet(s.components[h], T) = c,
                           s.entityId[h] \in s.typeIndex[T],
                           s.compEntity[c])),
             HookRaises(s, "on_remove"))

\* ---------------------------------------------------- World (design document)
\* on_component_added: the entity's id enters the index of the component's type
_entity_component_added(s, h, c) ==
    Emit([s EXCEPT !.typeIndex[get_component_type(c)] = @ \cup {s.entityId[h]}],
         Event("_entity_component_added", h, c, FALSE, FALSE, None))

\* on_component_removed: the entity's id leaves the index of the component's type
_entity_component_removed(s, h, c) ==
    Emit([s EXCEPT !.typeIndex[get_component_type(c)] = @ \ {s.entityId[h]}],
         Event("_entity_component_removed", h, c, FALSE, FALSE, None))

\* on_tag_added
_entity_tag_added(s, h, tag) ==
    Emit([s EXCEPT !.tagIndex[tag] = @ \cup {s.entityId[h]}],
         Event("_entity_tag_added", h, None, FALSE,
               s.entityId[h] \in s.tagIndex[tag], None))

\* on_tag_removed
_entity_tag_removed(s, h, tag) ==
    Emit([s EXCEPT !.tagIndex[tag] = @ \ {s.entityId[h]}],
         Event("_entity_tag_removed", h, None, FALSE, FALSE, None))

\* on_active_changed: the World's active-set view follows the flag
_entity_active_changed(s, h, flag) ==
    Emit([s EXCEPT !.activeView = IF flag THEN @ \cup {s.entityId[h]}
                                  ELSE @ \ {s.entityId[h]}],
         Event("_entity_active_changed", h, None, FALSE, FALSE, None))

\* on_entity_removed: the entity is erased from the registry and from every index
_remove_entity(s, h) ==
    LET i == s.entityId[h]
    IN Emit([s EXCEPT
               !.registry   = [j \in DOMAIN s.registry \ {i} |-> s.registry[j]],
               !.typeIndex  = [T \in DOMAIN s.typeIndex |-> s.typeIndex[T] \ {i}],
               !.tagIndex   = [t \in DOMAIN s.tagIndex |-> s.tagIndex[t] \ {i}],
               !.activeView = @ \ {i}],
            Event("_remove_entity", h, None, FALSE, FALSE, None))

\* --------------------------------------------------------------------- Entity
\* Entity.__init__(world, entity_id)
Entity__init__(s, h, entity_id) ==
    [s EXCEPT !.entityId[h]   = IF entity_id # NoId /\ entity_id # 0
                                THEN entity_id ELSE uuid4(h),   \* entity_id or uuid4()
              !.components[h] = <<>>,
              !.tags[h]       = {},
              !.active[h]     = TRUE]

\* Variant of add_component: the back-reference is set before the duplicate check
add_component_link_before_check(s, h, c) ==
    LET T  == get_component_type(c)
        s1 == _set_entity(s, c, h)
    IN IF T \in KeySet(s.components[h])
       THEN [s1 EXCEPT !.raised = DuplicateComponentError]
       ELSE LET s2 == [s1 EXCEPT !.components[h] = DictSet(@, T, c)]
                s3 == _entity_component_added(s2, h, c)
                s4 == on_add(s3, c)
            IN [s4 EXCEPT !.ret = h]

\* Variant of add_component: the hook runs before the World is notified
add_component_hook_before_index(s, h, c) ==
    LET T  == get_component_type(c)
    IN IF T \in KeySet(s.components[h])
       THEN [s EXCEPT !.raised = DuplicateComponentError]
       ELSE LET s1 == _set_entity(s, c, h)
                s2 == [s1 EXCEPT !.components[h] = DictSet(@, T, c)]
                s3 == on_add(s2, c)
                s4 == _entity_component_added(s3, h, c)
            IN [s4 EXCEPT !.ret = h]

\* Entity.add_component(component)
add_component(s, h, c) ==
    LET T  == get_component_type(c)
    IN IF T \in KeySet(s.components[h])
       THEN [s EXCEPT !.raised = DuplicateComponentError]
       ELSE LET s1 == _set_entity(s, c, h)
                s2 == [s1 EXCEPT !.components[h] = DictSet(@, T, c)]
                s3 == _entity_component_added(s2, h, c)
                s4 == on_add(s3, c)
            IN IF s4.raised # "" THEN s4 ELSE [s4 EXCEPT !.ret = h]

\* Variant of remove_component: the World is not notified
remove_component_no_notify(s, h, T) ==
    IF T \in KeySet(s.components[h])
    THEN LET c  == DictGet(s.components[h], T)
             s1 == on_remove(s, h, c)
             s2 == [s1 EXCEPT !.components[h] = DictDel(@, T)]
         IN [s2 EXCEPT !.ret = c]
    ELSE [s EXCEPT !.ret = None]

\* Variant of remove_component: the entry stays in the entity's mapping
remove_component_keep_entry(s, h, T) ==
    IF T \in KeySet(s.components[h])
    THEN LET c  == DictGet(s.components[h], T)
             s1 == on_remove(s, h, c)
             s2 == _entity_component_removed(s1, h, c)
         IN [s2 EXCEPT !.ret = c]
    ELSE [s EXCEPT !.ret = None]

\* Variant of remove_component: the World is notified also when nothing is held
remove_component_notify_when_absent(s, h, T) ==
    IF T \in KeySet(s.components[h])
    THEN LET c  == DictGet(s.components[h], T)
             s1 == on_remove(s, h, c)
             s2 == [s1 EXCEPT !.components[h] = DictDel(@, T)]
             s3 == _entity_component_removed(s2, h, c)
         IN [s3 EXCEPT !.ret = c]
    ELSE Emit([s EXCEPT !.ret = None],
              Event("_entity_component_removed", h, None, FALSE, FALSE, None))

\* Variant of remove_component: the hook runs after the component is unlinked
remove_component_hook_after_unlink(s, h, T) ==
    IF T \in KeySet(s.components[h])
    THEN LET c  == DictGet(s.components[h], T)
             s1 == [s EXCEPT !.components[h] = DictDel(@, T)]
             s2 == on_remove(s1, h, c)
             s3 == _entity_component_removed(s2, h, c)
         IN [s3 EXCEPT !.ret = c]
    ELSE [s EXCEPT !.ret = None]

\* Entity.remove_component(component_type)
remove_component(s, h, T) ==
    IF T \in KeySet(s.components[h])
    THEN LET c  == DictGet(s.components[h], T)
             s1 == on_remove(s, h, c)
             s2 == [s1 EXCEPT !.components[h] = DictDel(@, T)]
             s3 == _entity_component_removed(s2, h, c)
         IN IF s1.raised # "" THEN s1 ELSE [s3 EXCEPT !.ret = c]
    ELSE [s EXCEPT !.ret = None]

\* Entity.has_component / has_components
has_component(s, h, T)  == T \in KeySet(s.components[h])
has_components(s, h, S) == \A T \in S : T \in KeySet(s.components[h])

\* Variant of get_component: for a type not held, the first component held
get_component_or_first(s, h, T) ==
    IF T \in KeySet(s.components[h]) \/ s.components[h] = <<>>
    THEN DictGet(s.components[h], T)
    ELSE s.components[h][1][2]

\* Entity.get_component: self.components.get(component_type)
get_component(s, h, T)  == DictGet(s.components[h], T)

\* Variant of add_tag: the World is notified only of a tag that is new
add_tag_no_renotify(s, h, tag) ==
    IF tag \in s.tags[h] THEN [s EXCEPT !.ret = h]
    ELSE [_entity_tag_added([s EXCEPT !.tags[h] = @ \cup {tag}], h, tag)
             EXCEPT !.ret = h]

\* Entity.add_tag(tag)
add_tag(s, h, tag) ==
    LET s1 == [s EXCEPT !.tags[h] = @ \cup {tag}]
        s2 == _entity_tag_added(s1, h, tag)
    IN [s2 EXCEPT !.ret = h]

\* Variant of remove_tag: the World is not notified
remove_tag_no_notify(s, h, tag) ==
    IF tag \in s.tags[h]
    THEN [s EXCEPT !.tags[h] = @ \ {tag}, !.ret = 1]
    ELSE [s EXCEPT !.ret = 0]

\* Entity.remove_tag(tag): ret 1 is True, 0 is False
remove_tag(s, h, tag) ==
    IF tag \in s.tags[h]
    THEN LET s1 == [s EXCEPT !.tags[h] = @ \ {tag}]
             s2 == _entity_tag_removed(s1, h, tag)
         IN [s2 EXCEPT !.ret = 1]
    ELSE [s EXCEPT !.ret = 0]

\* Entity.has_tag / is_active
has_tag(s, h, tag) == tag \in s.tags[h]
is_active(s, h)    == s.active[h]

\* The loop of Entity.destroy over list(self.components.keys())
RECURSIVE RemoveAll(_, _, _)
RemoveAll(s, h, ks) ==
    IF ks = <<>> \/ s.raised # "" THEN s
    ELSE RemoveAll(remove_component(s, h, Head(ks)), h, Tail(ks))

\* Variant of destroy: the World is not asked to remove the entity
destroy_without_world_removal(s, h) ==
    LET s1 == RemoveAll(s, h, Keys(s.components[h]))
    IN [s1 EXCEPT !.ret = None]

\* Variant of destroy: the World removes the entity before the components go
destroy_world_removal_first(s, h) ==
    LET s1 == _remove_entity(s, h)
        s2 == RemoveAll(s1, h, Keys(s.components[h]))
    IN [s2 EXCEPT !.ret = None]

\* Entity.destroy()
destroy(s, h) ==
    LET s1 == RemoveAll(s, h, Keys(s.components[h]))
        s2 == _remove_entity(s1, h)
    IN IF s1.raised # "" THEN s1 ELSE [s2 EXCEPT !.ret = None]

\* A Component subclass may override on_remove with a hook that works on the
\* entity it is being removed from: the hook of component owner removes the
\* entity's component of type T, or attaches component c to it.
RemovingHooks == {[owner |-> o, kind |-> "remove_component", T |-> T, c |-> None] :
                      o \in Comps, T \in Types}
AttachingHooks == {[owner |-> o, kind |-> "add_component", T |-> "", c |-> c] :
                       o \in Comps, c \in Comps}

\* component.on_remove() where the hook of component ov.owner is overridden
on_remove_overridden(s, h, c, ov) ==
    IF c # ov.owner THEN on_remove(s, h, c)
    ELSE IF ov.kind = "remove_component"
    THEN remove_component(on_remove(s, h, c), h, ov.T)
    ELSE add_component(on_remove(s, h, c), h, ov.c)

\* Entity.remove_component(component_type) where one hook is overridden
remove_component_overridden(s, h, T, ov) ==
    IF T \in KeySet(s.components[h])
    THEN LET c  == DictGet(s.components[h], T)
             s1 == on_remove_overridden(s, h, c, ov)
             s2 == [s1 EXCEPT !.components[h] = DictDel(@, T)]
             s3 == _entity_component_removed(s2, h, c)
         IN IF s1.raised # "" THEN s1 ELSE [s3 EXCEPT !.ret = c]
    ELSE [s EXCEPT !.ret = None]

\* The loop of Entity.destroy where one hook is overridden
RECURSIVE RemoveAllOverridden(_, _, _, _)
RemoveAllOverridden(s, h, ks, ov) ==
    IF ks = <<>> \/ s.raised # "" THEN s
    ELSE RemoveAllOverridden(remove_component_overridden(s, h, Head(ks), ov),
                             h, Tail(ks), ov)

\* Entity.destroy() where one hook is overridden
destroy_overridden(s, h, ov) ==
    LET s1 == RemoveAllOverridden(s, h, Keys(s.components[h]), ov)
        s2 == _remove_entity(s1, h)
    IN IF s1.raised # "" THEN s1 ELSE [s2 EXCEPT !.ret = None]

\* Variant of set_active: the World is notified also when the flag stays
set_active_always_notify(s, h, flag) ==
    LET s1 == [s EXCEPT !.active[h] = flag]
        s2 == _entity_active_changed(s1, h, flag)
    IN [s2 EXCEPT !.ret = h]

\* Variant of set_active: the flag is flipped without notifying the World
set_active_no_notify(s, h, flag) ==
    IF s.active[h] # flag
    THEN [s EXCEPT !.active[h] = flag, !.ret = h]
    ELSE [s EXCEPT !.ret = h]

\* Variant of set_active: a deactivated entity is taken out of the type indexes
set_active_leave_type_index(s, h, flag) ==
    IF s.active[h] # flag
    THEN LET s1 == [s EXCEPT !.active[h] = flag]
             s2 == _entity_active_changed(s1, h, flag)
             s3 == IF flag THEN s2
                   ELSE [s2 EXCEPT !.typeIndex =
                            [T \in Types |-> s2.typeIndex[T] \ {s.entityId[h]}]]
         IN [s3 EXCEPT !.ret = h]
    ELSE [s EXCEPT !.ret = h]

\* Entity.set_active(active)
set_active(s, h, flag) ==
    IF s.active[h] # flag
    THEN LET s1 == [s EXCEPT !.active[h] = flag]
             s2 == _entity_active_changed(s1, h, flag)
         IN [s2 EXCEPT !.ret = h]
    ELSE [s EXCEPT !.ret = h]

\* ---------------------------------------------------- World (design document)
\* Variant of create_entity: a supplied id is not compared with the live ids
create_entity_no_check(s, entity_id) ==
    LET h  == s.numCreated + 1
        s1 == Entity__init__([s EXCEPT !.numCreated = h], h, entity_id)
        i  == s1.entityId[h]
    IN [s1 EXCEPT !.registry   = [j \in DOMAIN s.registry \cup {i} |->
                                     IF j = i THEN h ELSE s.registry[j]],
                  !.activeView = @ \cup {i},
                  !.ret        = h]

\* create_entity(id?): a supplied id that is live is refused; otherwise a new
\* Entity is constructed and registered, active, with empty index entries.
create_entity(s, entity_id) ==
    IF entity_id # NoId /\ entity_id \in DOMAIN s.registry
    THEN [s EXCEPT !.raised = "DuplicateIdError"]
    ELSE LET h  == s.numCreated + 1
             s1 == Entity__init__([s EXCEPT !.numCreated = h], h, entity_id)
             i  == s1.entityId[h]
         IN [s1 EXCEPT !.registry   = [j \in DOMAIN s.registry \cup {i} |->
                                          IF j = i THEN h ELSE s.registry[j]],
                       !.activeView = @ \cup {i},
                       !.ret        = h]

\* Variant of register_system: the system is put in front of the list
register_system_in_front(s, sys) == [s EXCEPT !.systems = <<sys>> \o @]

\* register_system(system): appended to the ordered list
register_system(s, sys) == [s EXCEPT !.systems = Append(@, sys)]

\* Variant of query: no required type, no entity
query_nothing_for_no_type(s, S, include_inactive) ==
    {s.registry[i] : i \in {j \in DOMAIN s.registry :
                               /\ S # {}
                               /\ \A T \in S : j \in s.typeIndex[T]
                               /\ include_inactive \/ j \in s.activeView}}

\* query(required_types, include_inactive): intersection of the per-type index
\* sets (all registered ids for no type), inactive ids dropped unless asked for
query(s, S, include_inactive) ==
    LET cand == {i \in DOMAIN s.registry : \A T \in S : i \in s.typeIndex[T]}
        kept == {i \in cand : include_inactive \/ i \in s.activeView}
    IN {s.registry[i] : i \in kept}

\* ----------------------------------------------------------- PlayerController
\* pygame key codes bound by the PlayerController defaults
move_keys    == [up |-> "K_w", down |-> "K_s", left |-> "K_a", right |-> "K_d"]
sprint_key   == "K_LSHIFT"
interact_key == "K_e"
MoveKeys     == {move_keys.up, move_keys.down, move_keys.left, move_keys.right}

Zero == FInt(0)
One  == FInt(1)

\* on_interact is None, or a callback of the scene: one that only takes note
\* of the call, or one that works on an entity of the World
NoCallback == [kind |-> "None", h |-> None, T |-> ""]
Callback(kind, h, T) == [kind |-> kind, h |-> h, T |-> T]

\* The program state with the player system's part, as one value
PCur ==
    [ numCreated |-> numCreated, entityId |-> entityId, components |-> components,
      tags |-> tags, active |-> active, compEntity |-> compEntity,
      registry |-> registry, typeIndex |-> typeIndex, tagIndex |-> tagIndex,
      activeView |-> activeView, systems |-> systems,
      events |-> <<>>, raised |-> "", ret |-> None, fault |-> NoFault,
      psys |-> psys, ctrl |-> ctrl, transform |-> transform, rigid |-> rigid,
      movement |-> <<Zero, Zero>>, fired |-> <<>>, processed |-> <<>> ]

\* Variant of Step: a pressed key sets the component instead of adding to it
Step_assign(x, pressed, delta) == IF pressed THEN delta ELSE x

\* One "if keys_pressed.get(key): component = component + delta" of process_input
Step(x, pressed, delta) == IF pressed THEN FAdd(x, delta) ELSE x

\* move_direction after the four movement keys were looked at (up, down, left,
\* right): x is to the right, y is down
Direction(keys_pressed) ==
    <<Step(Step(Zero, move_keys.left \in keys_pressed, FNeg(One)),
           move_keys.right \in keys_pressed, One),
      Step(Step(Zero, move_keys.up \in keys_pressed, FNeg(One)),
           move_keys.down \in keys_pressed, One)>>

\* facing_direction: the pressed movement key looked at last sets it
Facing(keys_pressed, facing) ==
    IF move_keys.right \in keys_pressed THEN <<1, 0>>
    ELSE IF move_keys.left \in keys_pressed THEN <<-1, 0>>
    ELSE IF move_keys.down \in keys_pressed THEN <<0, 1>>
    ELSE IF move_keys.up \in keys_pressed THEN <<0, -1>>
    ELSE facing

\* The direction divided by a length
Scaled(d, length) == <<FDiv(d[1], length), FDiv(d[2], length)>>

\* Variant of Normalize: a diagonal direction keeps its length
Normalize_not(d) == d

\* "Normalize diagonal movement": a direction with both components non-zero
\* is divided by its length
Normalize(d) ==
    IF d[1] # Zero /\ d[2] # Zero
    THEN Scaled(d, FSqrt(FAdd(FMul(d[1], d[1]), FMul(d[2], d[2]))))
    ELSE d

\* Variant of Speed: sprinting adds the multiplier to the speed
Speed_sprint_added(pc, sprinting) ==
    IF sprinting THEN FAdd(pc.move_speed, pc.sprint_multiplier) ELSE pc.move_speed

\* "Calculate movement speed": move_speed, times sprint_multiplier when sprinting
Speed(pc, sprinting) ==
    IF sprinting THEN FMul(pc.move_speed, pc.sprint_multiplier) ELSE pc.move_speed

\* Variant of Displacement: the time step is left out
Displacement_without_dt(d, speed, dt) == <<FMul(d[1], speed), FMul(d[2], speed)>>

\* "Calculate movement vector": direction * speed * dt, component by component
Displacement(d, speed, dt) ==
    <<FMul(FMul(d[1], speed), dt), FMul(FMul(d[2], speed), dt)>>

\* The fields process_input assigns, and the vector it returns (s.movement)
SetMovement(s, c, d, facing, sprinting, movement) ==
    [s EXCEPT !.ctrl[c] = [@ EXCEPT !.move_direction = d,
                                    !.facing_direction = facing,
                                    !.is_sprinting = sprinting,
                                    !.is_moving = movement[1] # Zero \/ movement[2] # Zero],
              !.movement = movement]

\* PlayerController.process_input(dt, keys_pressed) of instance c
process_input(s, c, dt, keys_pressed) ==
    SetMovement(s, c, Normalize(Direction(keys_pressed)),
                Facing(keys_pressed, s.ctrl[c].facing_direction),
                sprint_key \in keys_pressed,
                Displacement(Normalize(Direction(keys_pressed)),
                             Speed(s.ctrl[c], sprint_key \in keys_pressed), dt))

\* The call self.on_interact() of instance c
on_interact(s, c) ==
    LET cb == s.ctrl[c].on_interact
        s1 == [s EXCEPT !.fired = Append(@, c)]
    IN CASE cb.kind = "remove_component" -> remove_component(s1, cb.h, cb.T)
         [] cb.kind = "set_active"       -> set_active(s1, cb.h, FALSE)
         [] cb.kind = "destroy"          -> destroy(s1, cb.h)
         [] OTHER                        -> s1

\* PlayerController.process_interaction(keys_pressed, key_just_pressed)
process_interaction(s, c, keys_pressed, key_just_pressed) ==
    IF interact_key \in key_just_pressed /\ s.ctrl[c].on_interact # NoCallback
    THEN on_interact(s, c)
    ELSE s

\* ---------------------------------------------------------------- PlayerSystem
\* Variant of _update_input_state: every pressed key counts as just pressed
_update_input_state_level(s, key_state) ==
    [s EXCEPT !.psys.previous_keys     = s.psys.keys_pressed,
              !.psys.keys_pressed      = key_state,
              !.psys.keys_just_pressed = key_state]

\* PlayerSystem._update_input_state(); key_state is the set of keys that
\* pygame.key.get_pressed() reports as pressed
_update_input_state(s, key_state) ==
    [s EXCEPT !.psys.previous_keys     = s.psys.keys_pressed,
              !.psys.keys_pressed      = key_state,
              !.psys.keys_just_pressed = key_state \ s.psys.keys_pressed]

\* The entity as PlayerSystem finds it on entering _process_entity
Found(s, h) ==
    [h          |-> h,
     controller |-> DictGet(s.components[h], "PlayerController") # None,
     transform  |-> DictGet(s.components[h], "Transform") # None,
     live       |-> \E i \in DOMAIN s.registry : s.registry[i] = h,
     active     |-> s.active[h]]

\* An attribute is read or a method called on None
AttributeError(s) == [s EXCEPT !.raised = "AttributeError"]

\* Variant of apply_movement: the transform is advanced for every entity
apply_movement_always_advance(s, dt, tr, rigid_body) ==
    IF tr = None THEN AttributeError(s)
    ELSE IF rigid_body # None /\ s.rigid[rigid_body].is_kinematic
    THEN [s EXCEPT !.rigid[rigid_body].velocity =
                       <<FDiv(s.movement[1], dt), FDiv(s.movement[2], dt)>>,
                   !.transform[tr].position =
                       <<FAdd(@[1], s.movement[1]), FAdd(@[2], s.movement[2])>>]
    ELSE [s EXCEPT !.transform[tr].position =
                       <<FAdd(@[1], s.movement[1]), FAdd(@[2], s.movement[2])>>]

\* "Apply movement to transform" of _process_entity: a kinematic rigid body
\* gets the velocity movement / dt, otherwise the transform is advanced
apply_movement(s, dt, tr, rigid_body) ==
    IF rigid_body # None /\ s.rigid[rigid_body].is_kinematic
    THEN [s EXCEPT !.rigid[rigid_body].velocity =
                       <<FDiv(s.movement[1], dt), FDiv(s.movement[2], dt)>>]
    ELSE IF tr = None THEN AttributeError(s)
    ELSE [s EXCEPT !.transform[tr].position =
                       <<FAdd(@[1], s.movement[1]), FAdd(@[2], s.movement[2])>>]

\* "Process interactions" of _process_entity
interact(s, player_controller) ==
    IF s.raised # "" THEN s
    ELSE process_interaction(s, player_controller, s.psys.keys_pressed,
                             s.psys.keys_just_pressed)

\* "Log movement for debugging" of _process_entity: the message reads
\* transform.position when the movement is not zero
log_movement(s, tr) ==
    IF s.raised = "" /\ (s.movement[1] # Zero \/ s.movement[2] # Zero) /\ tr = None
    THEN AttributeError(s)
    ELSE s

\* _process_entity once the components are fetched
process_fetched(s, dt, player_controller, tr, rigid_body) ==
    IF player_controller = None THEN AttributeError(s)
    ELSE log_movement(
             interact(apply_movement(
                          process_input(s, player_controller, dt, s.psys.keys_pressed),
                          dt, tr, rigid_body),
                      player_controller),
             tr)

\* PlayerSystem._process_entity(dt, entity); dt > 0
_process_entity(s, dt, h) ==
    process_fetched([s EXCEPT !.processed = Append(@, Found(s, h))], dt,
                    get_component(s, h, "PlayerController"),
                    get_component(s, h, "Transform"),
                    get_component(s, h, "RigidBody"))

\* The loop of PlayerSystem.process over the list it was handed
RECURSIVE ProcessEach(_, _, _)
ProcessEach(s, dt, entities) ==
    IF entities = <<>> \/ s.raised # "" THEN s
    ELSE ProcessEach(_process_entity(s, dt, Head(entities)), dt, Tail(entities))

\* PlayerSystem.process(dt, entities), with the key state pygame reports
process(s, dt, entities, key_state) ==
    ProcessEach(_update_input_state([s EXCEPT !.psys.player_entities = entities],
                                    key_state),
                dt, entities)

\* The orders in which query may list a set of entities
Orders(S) == {sq \in [1..Cardinality(S) -> S] : \A i, j \in DOMAIN sq : sq[i] = sq[j] => i = j}

\* ------------------------------------------------------------------- actions
CommitState(s) ==
    /\ numCreated' = s.numCreated
    /\ entityId'   = s.entityId
    /\ components' = s.components
    /\ tags'       = s.tags
    /\ active'     = s.active
    /\ compEntity' = s.compEntity
    /\ registry'   = s.registry
    /\ typeIndex'  = s.typeIndex
    /\ tagIndex'   = s.tagIndex
    /\ activeView' = s.activeView
    /\ systems'    = s.systems

\* The call just made and how it ended
Call(s, op, h, c, T, tag, flag, id) ==
    [op |-> op, h |-> h, c |-> c, T |-> T, tag |-> tag, flag |-> flag, id |-> id,
     raised |-> s.raised, ret |-> s.ret, events |-> s.events]

\* No call has failed during the tick
NoFailure == [pos |-> 0, raised |-> ""]

\* A call that fails while a system is processing is reported to that system
NoteFailure(s) ==
    tickFailure' = IF s.raised # "" /\ tickPos > 0
                   THEN [pos |-> tickPos, raised |-> s.raised]
                   ELSE tickFailure

Commit(s, op, h, c, T, tag, flag) ==
    /\ CommitState(s)
    /\ last' = Call(s, op, h, c, T, tag, flag, NoId)
    /\ NoteFailure(s)
    /\ UNCHANGED playerVars /\ UNCHANGED inputVars

\* Entity objects the callers hold and use: those registered in the World
Live == {registry[i] : i \in DOMAIN registry}

CreateEntity(limit) ==
    /\ numCreated < limit
    /\ Commit(create_entity(Cur, NoId), "create_entity", None, None, "", "", FALSE)
    /\ UNCHANGED <<tickPos, invoked, destroyed>>

\* create_entity(id) with an id the caller supplies
CreateEntityWithId(limit) ==
    \E id \in SuppliedIds :
        /\ numCreated < limit \/ id \in DOMAIN registry
        /\ LET s == create_entity(Cur, id)
           IN /\ CommitState(s)
              /\ last' = Call(s, "create_entity", None, None, "", "", FALSE, id)
              /\ NoteFailure(s)
        /\ UNCHANGED <<tickPos, invoked, destroyed>>
        /\ UNCHANGED playerVars /\ UNCHANGED inputVars

AddComponent ==
    \E h \in Live, c \in Comps :
        /\ Commit(add_component(Cur, h, c), "add_component", h, c,
                  get_component_type(c), "", FALSE)
        /\ UNCHANGED <<tickPos, invoked, destroyed>>

RemoveComponent ==
    \E h \in Live, T \in Types :
        /\ Commit(remove_component(Cur, h, T), "remove_component", h, None, T, "", FALSE)
        /\ UNCHANGED <<tickPos, invoked, destroyed>>

AddTag ==
    \E h \in Live, tag \in Tags :
        /\ Commit(add_tag(Cur, h, tag), "add_tag", h, None, "", tag, FALSE)
        /\ UNCHANGED <<tickPos, invoked, destroyed>>

RemoveTag ==
    \E h \in Live, tag \in Tags :
        /\ Commit(remove_tag(Cur, h, tag), "remove_tag", h, None, "", tag, FALSE)
        /\ UNCHANGED <<tickPos, invoked, destroyed>>

SetActive ==
    \E h \in Live, flag \in BOOLEAN :
        /\ Commit(set_active(Cur, h, flag), "set_active", h, None, "", "", flag)
        /\ UNCHANGED <<tickPos, invoked, destroyed>>

Destroy ==
    \E h \in Live :
        /\ Commit(destroy(Cur, h), "destroy", h, None, "", "", FALSE)
        /\ destroyed' = destroyed \cup {h}
        /\ UNCHANGED <<tickPos, invoked>>

\* destroy() of an entity one of whose components has an overriding on_remove
\* hook; a hook that attaches a component attaches one that is on no entity
DestroyHookMutates ==
    \E h \in Live, ov \in RemovingHooks \cup AttachingHooks :
        /\ ov.owner \in ValueSet(components[h])
        /\ ov.kind = "add_component" => compEntity[ov.c] = None
        /\ LET s == destroy_overridden(Cur, h, ov)
           IN /\ Commit(s, "destroy", h, ov.owner, ov.T, "", FALSE)
              /\ destroyed' = IF s.raised = "" THEN destroyed \cup {h} ELSE destroyed
              /\ UNCHANGED <<tickPos, invoked>>

\* The same calls on a handle the caller kept of an entity that was destroyed
StaleAddComponent ==
    \E h \in destroyed, c \in Comps :
        /\ Commit(add_component(Cur, h, c), "add_component", h, c,
                  get_component_type(c), "", FALSE)
        /\ UNCHANGED <<tickPos, invoked, destroyed>>

StaleAddTag ==
    \E h \in destroyed, tag \in Tags :
        /\ Commit(add_tag(Cur, h, tag), "add_tag", h, None, "", tag, FALSE)
        /\ UNCHANGED <<tickPos, invoked, destroyed>>

StaleSetActive ==
    \E h \in destroyed, flag \in BOOLEAN :
        /\ Commit(set_active(Cur, h, flag), "set_active", h, None, "", "", flag)
        /\ UNCHANGED <<tickPos, invoked, destroyed>>

StaleDestroy ==
    \E h \in destroyed :
        /\ Commit(destroy(Cur, h), "destroy", h, None, "", "", FALSE)
        /\ UNCHANGED <<tickPos, invoked, destroyed>>

\* A bool returned to the caller: 1 is True, 0 is False
Bool(b) == IF b THEN 1 ELSE 0

\* The lookups: they assign nothing and call nothing of the World
GetComponent ==
    \E h \in Live, T \in Types :
        /\ Commit([Cur EXCEPT !.ret = get_component(Cur, h, T)], "get_component",
                  h, None, T, "", FALSE)
        /\ UNCHANGED <<tickPos, invoked, destroyed>>

HasComponent ==
    \E h \in Live, T \in Types :
        /\ Commit([Cur EXCEPT !.ret = Bool(has_component(Cur, h, T))], "has_component",
                  h, None, T, "", FALSE)
        /\ UNCHANGED <<tickPos, invoked, destroyed>>

HasComponents ==
    \E h \in Live, S \in SUBSET Types :
        /\ Commit([Cur EXCEPT !.ret = Bool(has_components(Cur, h, S))], "has_components",
                  h, None, "", "", FALSE)
        /\ UNCHANGED <<tickPos, invoked, destroyed>>

HasTag ==
    \E h \in Live, tag \in Tags :
        /\ Commit([Cur EXCEPT !.ret = Bool(has_tag(Cur, h, tag))], "has_tag",
                  h, None, "", tag, FALSE)
        /\ UNCHANGED <<tickPos, invoked, destroyed>>

IsActive ==
    \E h \in Live :
        /\ Commit([Cur EXCEPT !.ret = Bool(is_active(Cur, h))], "is_active",
                  h, None, "", "", FALSE)
        /\ UNCHANGED <<tickPos, invoked, destroyed>>

\* The same calls on components whose overriding hook may raise
AddComponentHookRaises ==
    \E h \in Live, c \in Comps, f \in HookFaults :
        /\ Commit(add_component([Cur EXCEPT !.fault = f], h, c), "add_component",
                  h, c, get_component_type(c), "", FALSE)
        /\ UNCHANGED <<tickPos, invoked, destroyed>>

RemoveComponentHookRaises ==
    \E h \in Live, T \in Types, f \in HookFaults :
        /\ Commit(remove_component([Cur EXCEPT !.fault = f], h, T),
                  "remove_component", h, None, T, "", FALSE)
        /\ UNCHANGED <<tickPos, invoked, destroyed>>

DestroyHookRaises ==
    \E h \in Live, f \in HookFaults :
        LET s == destroy([Cur EXCEPT !.fault = f], h)
        IN /\ Commit(s, "destroy", h, None, "", "", FALSE)
           /\ destroyed' = IF s.raised = "" THEN destroyed \cup {h} ELSE destroyed
           /\ UNCHANGED <<tickPos, invoked>>

RegisterSystem ==
    \E sys \in Systems :
        /\ \A k \in 1..Len(systems) : systems[k] # sys
        /\ Commit(register_system(Cur, sys), "register_system", None, None, "", "", FALSE)
        /\ UNCHANGED <<tickPos, invoked, destroyed>>

\* register_system of the System that requires no component
RegisterEverySystem ==
    /\ systems = <<>>
    /\ Commit(register_system(Cur, EverySystem), "register_system", None, None, "", "", FALSE)
    /\ UNCHANGED <<tickPos, invoked, destroyed>>

\* World.tick(dt) reaches system number k: the list it is handed is resolved now
tick_enter(k) ==
    LET call == [system   |-> systems[k],
                 entities |-> query(Cur, required_components(systems[k]), FALSE)]
    IN /\ tickPos' = k
       /\ invoked' = IF k = 1 THEN <<call>> ELSE Append(invoked, call)

\* World.tick(dt) is called (no tick is running): the first system is entered,
\* or the call returns at once when no system is registered
TickBegin ==
    /\ tickPos = 0
    /\ IF systems = <<>>
       THEN tickPos' = 0 /\ invoked' = <<>>
       ELSE tick_enter(1)
    /\ CommitState(Cur)
    /\ last' = Call(Cur, "tick", None, None, "", "", FALSE, NoId)
    /\ tickFailure' = NoFailure
    /\ UNCHANGED destroyed
    /\ UNCHANGED playerVars /\ UNCHANGED inputVars

\* Variant of next_system: a failed call in a turn ends the tick with that turn
next_system_stop_after_failure(pos, n, failure) ==
    IF failure.pos > 0 THEN 0 ELSE IF pos < n THEN pos + 1 ELSE 0

\* World.tick(dt): the position of the system entered after the one at pos
\* returns, of n registered (0: tick returns); a call that failed in a turn
\* was aborted alone and does not end the tick
next_system(pos, n, failure) == IF pos < n THEN pos + 1 ELSE 0

\* The system now processing returns: the next system is entered, or tick returns
SystemReturn ==
    /\ tickPos > 0
    /\ LET k == next_system(tickPos, Len(systems), tickFailure)
       IN IF k > 0
          THEN tick_enter(k)
          ELSE tickPos' = 0 /\ invoked' = invoked
    /\ Commit(Cur, "process_return", None, None, "", "", FALSE)
    /\ UNCHANGED destroyed

\* ------------------------------------------------------------ InputManager
\* Key codes and mouse buttons of the events
KeyCodes == {"K_e", "K_ESCAPE"}
Buttons  == {"BUTTON_LEFT"}

\* A pygame event: type, and key, button and pos where the type has them
InputEvent(type, key, button, pos) == [type |-> type, key |-> key, button |-> button, pos |-> pos]

\* The events pygame.event.get() can hand out
InputEvents ==
    {InputEvent(type, key, "", <<0, 0>>) : type \in {"KEYDOWN", "KEYUP"}, key \in KeyCodes}
    \cup {InputEvent(type, "", button, <<0, 0>>) :
              type \in {"MOUSEBUTTONDOWN", "MOUSEBUTTONUP"}, button \in Buttons}
    \cup {InputEvent("MOUSEMOTION", "", "", <<3, 4>>), InputEvent("QUIT", "", "", <<0, 0>>)}

\* InputManager.__init__
InputManager ==
    [ keys_pressed |-> {}, keys_down |-> {}, keys_up |-> {},
      mouse_position |-> <<0, 0>>,
      mouse_buttons_pressed |-> {}, mouse_buttons_down |-> {},
      mouse_buttons_up |-> {}, mouse_wheel_y |-> 0,
      key_callbacks |-> [k \in KeyCodes |-> 0],
      mouse_button_callbacks |-> [b \in Buttons |-> 0],
      mouse_motion_callbacks |-> 0 ]

\* InputManager.process_event(event); no callbacks are registered
process_event(im, event) ==
    CASE event.type = "KEYDOWN" ->
           [im EXCEPT !.keys_pressed = @ \cup {event.key},
                      !.keys_down    = @ \cup {event.key}]
      [] event.type = "KEYUP" ->
           [im EXCEPT !.keys_pressed = IF event.key \in @ THEN @ \ {event.key} ELSE @,
                      !.keys_up      = @ \cup {event.key}]
      [] event.type = "MOUSEMOTION" ->
           [im EXCEPT !.mouse_position = event.pos]
      [] event.type = "MOUSEBUTTONDOWN" ->
           [im EXCEPT !.mouse_buttons_pressed = @ \cup {event.button},
                      !.mouse_buttons_down    = @ \cup {event.button}]
      [] event.type = "MOUSEBUTTONUP" ->
           [im EXCEPT !.mouse_buttons_pressed =
                          IF event.button \in @ THEN @ \ {event.button} ELSE @,
                      !.mouse_buttons_up      = @ \cup {event.button}]
      [] OTHER -> im

\* Variant of update: the pressed sets are cleared with the one-frame sets
update_clearing_pressed(im) ==
    [im EXCEPT !.keys_pressed = {}, !.mouse_buttons_pressed = {},
               !.keys_down = {}, !.keys_up = {},
               !.mouse_buttons_down = {}, !.mouse_buttons_up = {},
               !.mouse_wheel_y = 0]

\* Variant of update: keys_up is not cleared
update_keeping_keys_up(im) ==
    [im EXCEPT !.keys_down = {},
               !.mouse_buttons_down = {}, !.mouse_buttons_up = {},
               !.mouse_wheel_y = 0]

\* InputManager.update(): "Clear one-frame states"
update(im) ==
    [im EXCEPT !.keys_down = {}, !.keys_up = {},
               !.mouse_buttons_down = {}, !.mouse_buttons_up = {},
               !.mouse_wheel_y = 0]

\* InputManager.register_key_callback(key, callback): one more callback in
\* the list of the key (the lists are held by their lengths)
register_key_callback(im, key) == [im EXCEPT !.key_callbacks[key] = @ + 1]

\* InputManager.register_mouse_button_callback(button, callback)
register_mouse_button_callback(im, button) ==
    [im EXCEPT !.mouse_button_callbacks[button] = @ + 1]

\* InputManager.register_mouse_motion_callback(callback)
register_mouse_motion_callback(im) == [im EXCEPT !.mouse_motion_callbacks = @ + 1]

\* The sum of f over the set S
RECURSIVE Total(_, _)
Total(f, S) ==
    IF S = {} THEN 0
    ELSE f[CHOOSE x \in S : TRUE] + Total(f, S \ {CHOOSE x \in S : TRUE})

\* The number of callbacks registered with the InputManager
Registered(im) ==
    im.mouse_motion_callbacks
    + Total(im.key_callbacks, KeyCodes) + Total(im.mouse_button_callbacks, Buttons)

\* The queries of the InputManager
is_key_pressed(im, key) == key \in im.keys_pressed
is_key_down(im, key)    == key \in im.keys_down
is_key_up(im, key)      == key \in im.keys_up
is_mouse_button_pressed(im, button) == button \in im.mouse_buttons_pressed
is_mouse_button_down(im, button)    == button \in im.mouse_buttons_down
is_mouse_button_up(im, button)      == button \in im.mouse_buttons_up

\* What the four one-frame queries answer for every key and button
Reported(im) ==
    [ keys_down |-> {k \in KeyCodes : is_key_down(im, k)},
      keys_up   |-> {k \in KeyCodes : is_key_up(im, k)},
      mouse_buttons_down |-> {b \in Buttons : is_mouse_button_down(im, b)},
      mouse_buttons_up   |-> {b \in Buttons : is_mouse_button_up(im, b)} ]

\* The record of the calls made on the InputManager so far: none
NoCalls == [ recent |-> <<>>,
             lastKey |-> [k \in KeyCodes |-> ""],
             lastButton |-> [b \in Buttons |-> ""] ]

\* The call update() as an entry of the record of calls
UpdateCall == InputEvent("update", "", "", <<0, 0>>)

\* The record of calls after one more call
Logged(log, call) ==
    [ recent |-> IF Len(log.recent) < MaxRecent THEN Append(log.recent, call)
                 ELSE Append(Tail(log.recent), call),
      lastKey |-> IF call.type \in {"KEYDOWN", "KEYUP"}
                  THEN [log.lastKey EXCEPT ![call.key] = call.type]
                  ELSE log.lastKey,
      lastButton |-> IF call.type \in {"MOUSEBUTTONDOWN", "MOUSEBUTTONUP"}
                     THEN [log.lastButton EXCEPT ![call.button] = call.type]
                     ELSE log.lastButton ]

\* ------------------------------------------------------------- Application
\* Config.escape_quits, as Config.__init__ sets it
escape_quits == TRUE

\* The scene objects a caller may hand to set_scene
Scenes == 1..MaxScenes

\* What the scene's update saw: nothing yet
NotSeen == [ keys_down |-> {}, keys_up |-> {},
             mouse_buttons_down |-> {}, mouse_buttons_up |-> {} ]

\* Application.__init__: no scene, run() not called yet; fetched and handled
\* are the events of the current frame, notes the on_enter / on_exit calls
\* made on scenes, shutdowns the number of shutdown() calls
Application ==
    [ quit_requested |-> FALSE, current_scene |-> None, escape_quits |-> escape_quits,
      pc |-> "constructed", fetched |-> <<>>, handled |-> <<>>, seen |-> NotSeen,
      notes |-> <<>>, shutdowns |-> 0 ]

\* The Application, its InputManager and the record of calls, as one value
ACur == [input |-> input, app |-> app, inputLog |-> inputLog]

\* scene.on_enter(self) / scene.on_exit() is called
Notify(s, note, scene) ==
    [s EXCEPT !.app.notes = Append(@, [note |-> note, scene |-> scene])]

\* "if self.current_scene: self.current_scene.on_exit()"
exit_current_scene(s) ==
    IF s.app.current_scene # None THEN Notify(s, "on_exit", s.app.current_scene) ELSE s

\* Variant of set_scene: the previous scene is not told that it is left
set_scene_without_exit(s, scene) ==
    Notify([s EXCEPT !.app.current_scene = scene], "on_enter", scene)

\* Application.set_scene(scene)
set_scene(s, scene) ==
    Notify([exit_current_scene(s) EXCEPT !.app.current_scene = scene], "on_enter", scene)

\* event makes process_events set quit_requested
RequestsQuit(s, event) ==
    \/ event.type = "QUIT"
    \/ event.type = "KEYDOWN" /\ event.key = "K_ESCAPE" /\ s.app.escape_quits

\* One turn of the loop of Application.process_events
handle_event(s, event) ==
    [s EXCEPT !.app.quit_requested = @ \/ RequestsQuit(s, event),
              !.app.handled = Append(@, event),
              !.input = process_event(@, event),
              !.inputLog = Logged(@, event)]

\* Application.process_events with the events pygame.event.get() returned
RECURSIVE process_events(_, _)
process_events(s, events) ==
    IF events = <<>> THEN s
    ELSE process_events(handle_event(s, Head(events)), Tail(events))

\* The current scene's update(dt): it sees what the one-frame queries answer
\* now, and may hand the application another scene (next # None)
scene_update(s, next) ==
    IF s.app.current_scene = None THEN s
    ELSE IF next = None THEN [s EXCEPT !.app.seen = Reported(s.input)]
    ELSE set_scene([s EXCEPT !.app.seen = Reported(s.input)], next)

\* Application.update(dt): the InputManager is updated, then the scene
app_update(s, next) ==
    scene_update([s EXCEPT !.input = update(@),
                           !.inputLog = Logged(@, UpdateCall),
                           !.app.seen = NotSeen],
                 next)

\* Variant of run_loop: the loop goes on after a quit request
run_loop_forever(s) == [s EXCEPT !.app.pc = "process_events"]

\* "while not self.quit_requested" of Application.run: another frame, or
\* on to shutdown
run_loop(s) ==
    [s EXCEPT !.app.pc = IF s.app.quit_requested THEN "shutdown" ELSE "process_events"]

\* Application.shutdown()
shutdown(s) ==
    [exit_current_scene(s) EXCEPT !.app.shutdowns = @ + 1]

\* The number of set_scene calls made so far
SceneChanges(a) == Len(SelectSeq(a.notes, LAMBDA n : n.note = "on_enter"))

\* The state before any call on the Application and its InputManager
InputInit == input = InputManager /\ app = Application /\ inputLog = NoCalls

\* The Application state s becomes the state
CommitApp(s) ==
    /\ input' = s.input /\ app' = s.app /\ inputLog' = s.inputLog
    /\ UNCHANGED worldVars /\ UNCHANGED playerVars

\* The host clears config.escape_quits before run() is entered
ClearEscapeQuits ==
    /\ app.pc = "constructed" /\ app.escape_quits
    /\ CommitApp([ACur EXCEPT !.app.escape_quits = FALSE])

\* Application.set_scene(scene), before run() is entered
SetScene ==
    /\ app.pc = "constructed" /\ SceneChanges(app) < MaxSceneChanges
    /\ \E scene \in Scenes : CommitApp(set_scene(ACur, scene))

\* Application.run() is called and reaches the loop condition
Run ==
    /\ app.pc = "constructed"
    /\ CommitApp(run_loop(ACur))

\* run(): self.process_events() of a frame
ProcessEvents ==
    /\ app.pc = "process_events"
    /\ \E n \in 0..MaxEvents : \E events \in [1..n -> InputEvents] :
          CommitApp([process_events([ACur EXCEPT !.app.fetched = events,
                                                 !.app.handled = <<>>,
                                                 !.app.seen = NotSeen], events)
                        EXCEPT !.app.pc = "update"])

\* run(): self.update(dt) of a frame
Update ==
    /\ app.pc = "update"
    /\ \E next \in {None} \cup
                   (IF SceneChanges(app) < MaxSceneChanges THEN Scenes ELSE {}) :
          CommitApp([app_update(ACur, next) EXCEPT !.app.pc = "render"])

\* run(): self.render() of a frame, and back to the loop condition
Render ==
    /\ app.pc = "render"
    /\ CommitApp(run_loop(ACur))

\* run(): self.shutdown() after the loop
Shutdown ==
    /\ app.pc = "shutdown"
    /\ CommitApp([shutdown(ACur) EXCEPT !.app.pc = "done"])

\* A caller's input_manager.process_event(event)
ProcessEvent ==
    \E event \in InputEvents :
        CommitApp([ACur EXCEPT !.input = process_event(@, event),
                               !.inputLog = Logged(@, event)])

\* A caller's input_manager.update()
InputUpdate ==
    CommitApp([ACur EXCEPT !.input = update(@),
                           !.inputLog = Logged(@, UpdateCall)])

\* A caller's input_manager.register_key_callback(key, callback)
RegisterKeyCallback ==
    /\ Registered(input) < MaxCallbacks
    /\ \E key \in KeyCodes :
          CommitApp([ACur EXCEPT !.input = register_key_callback(@, key)])

\* A caller's input_manager.register_mouse_button_callback(button, callback)
RegisterMouseButtonCallback ==
    /\ Registered(input) < MaxCallbacks
    /\ \E button \in Buttons :
          CommitApp([ACur EXCEPT !.input = register_mouse_button_callback(@, button)])

\* A caller's input_manager.register_mouse_motion_callback(callback)
RegisterMouseMotionCallback ==
    /\ Registered(input) < MaxCallbacks
    /\ CommitApp([ACur EXCEPT !.input = register_mouse_motion_callback(@)])

\* PlayerSystem.__init__: no key seen yet, no player entities
NoInput == [keys_pressed |-> {}, keys_just_pressed |-> {}, previous_keys |-> {},
            player_entities |-> <<>>]

\* PlayerSystem.process has not been called yet
NoFrame == [n |-> 0, dt |-> FInt(0), fired |-> <<>>, processed |-> <<>>, raised |-> ""]

Init ==
    /\ numCreated = 0
    /\ entityId   = [h \in Handles |-> None]
    /\ components = [h \in Handles |-> <<>>]
    /\ tags       = [h \in Handles |-> {}]
    /\ active     = [h \in Handles |-> TRUE]
    /\ compEntity = [c \in Comps |-> None]
    /\ registry   = <<>>
    /\ typeIndex  = [T \in Types |-> {}]
    /\ tagIndex   = [t \in Tags |-> {}]
    /\ activeView = {}
    /\ systems    = <<>>
    /\ tickPos    = 0
    /\ invoked    = <<>>
    /\ destroyed  = {}
    /\ tickFailure = NoFailure
    /\ psys = NoInput
    /\ ctrl = <<>> /\ transform = <<>> /\ rigid = <<>>
    /\ frame = NoFrame
    /\ InputInit
    /\ last = [op |-> "init", h |-> None, c |-> None, T |-> "", tag |-> "",
               flag |-> FALSE, id |-> NoId, raised |-> "", ret |-> None,
               events |-> <<>>]

\* ------------------------------------------------------------------ scenes
\* The component classes of a scene with player entities
PlayerTypes == {"PlayerController", "Transform", "RigidBody"}

\* The physics of a player entity: no RigidBody, a dynamic or a kinematic one
Bodies == {"none", "dynamic", "kinematic"}

\* World(): nothing registered, for n Entity objects to come and their components
EmptyWorld(n) ==
    [ numCreated |-> 0,
      entityId   |-> [h \in 1..n |-> None],
      components |-> [h \in 1..n |-> <<>>],
      tags       |-> [h \in 1..n |-> {}],
      active     |-> [h \in 1..n |-> TRUE],
      compEntity |-> [c \in {PlayerControllerOf(k) : k \in 1..n}
                            \cup {TransformOf(k) : k \in 1..n}
                            \cup {RigidBodyOf(k) : k \in 1..n} |-> None],
      registry   |-> <<>>,
      typeIndex  |-> [T \in PlayerTypes |-> {}],
      tagIndex   |-> [t \in Tags |-> {}],
      activeView |-> {},
      systems    |-> <<>>,
      events |-> <<>>, raised |-> "", ret |-> None, fault |-> NoFault ]

\* The scene creates player k .. n: an entity with a PlayerController, a
\* Transform and, where the scene gives it physics, a RigidBody
RECURSIVE AddPlayers(_, _, _, _)
AddPlayers(s, k, n, body) ==
    IF k > n THEN s
    ELSE LET s1 == create_entity(s, NoId)
             h  == s1.ret
             s2 == add_component(s1, h, PlayerControllerOf(k))
             s3 == add_component(s2, h, TransformOf(k))
             s4 == IF body[k] = "none" THEN s3
                   ELSE add_component(s3, h, RigidBodyOf(k))
         IN AddPlayers(s4, k + 1, n, body)

\* The variables hold the scene s: the World, the components' fields as the
\* scene constructs them, a PlayerSystem that has not processed yet
SceneIs(s, n, speed, body, cb) ==
    /\ numCreated = s.numCreated /\ entityId = s.entityId
    /\ components = s.components /\ tags = s.tags /\ active = s.active
    /\ compEntity = s.compEntity /\ registry = s.registry
    /\ typeIndex = s.typeIndex /\ tagIndex = s.tagIndex
    /\ activeView = s.activeView /\ systems = s.systems
    /\ tickPos = 0 /\ invoked = <<>> /\ destroyed = {}
    /\ tickFailure = NoFailure
    /\ psys = NoInput
    /\ ctrl = [c \in {PlayerControllerOf(k) : k \in 1..n} |->
                 [move_speed        |-> speed,
                  sprint_multiplier |-> FLit(3, 2),
                  is_moving         |-> FALSE,
                  is_sprinting      |-> FALSE,
                  move_direction    |-> <<Zero, Zero>>,
                  facing_direction  |-> <<0, 1>>,
                  on_interact       |-> cb[c - PlayerControllerOf(0)]]]
    /\ transform = [c \in {TransformOf(k) : k \in 1..n} |->
                       [position |-> <<Zero, Zero>>]]
    /\ rigid = [c \in {RigidBodyOf(k) : k \in 1..n} |->
                   [is_kinematic |-> body[c - RigidBodyOf(0)] = "kinematic",
                    velocity     |-> <<Zero, Zero>>]]
    /\ frame = NoFrame
    /\ InputInit
    /\ last = [op |-> "init", h |-> None, c |-> None, T |-> "", tag |-> "",
               flag |-> FALSE, id |-> NoId, raised |-> "", ret |-> None,
               events |-> <<>>]

\* The state once a scene with n player entities and the PlayerSystem is set
\* up; the scene chooses move_speed, physics and interaction callbacks
InitScene(n, Speeds, BodyChoices, Callbacks) ==
    \E body \in [1..n -> BodyChoices], speed \in Speeds, cb \in [1..n -> Callbacks] :
        SceneIs(register_system(AddPlayers(EmptyWorld(n), 1, n, body), PlayerSystem),
                n, speed, body, cb)

\* The state after PlayerSystem.process returned (or raised) with s
CommitProcess(s, dt) ==
    /\ CommitState(s)
    /\ psys' = s.psys /\ ctrl' = s.ctrl
    /\ transform' = s.transform /\ rigid' = s.rigid
    /\ frame' = [n |-> frame.n + 1, dt |-> dt, fired |-> s.fired,
                 processed |-> s.processed, raised |-> s.raised]
    /\ last' = Call(s, "tick", None, None, "", "", FALSE, NoId)
    /\ destroyed' = destroyed \cup
           {h \in Live : \A i \in DOMAIN s.registry : s.registry[i] # h}
    /\ UNCHANGED inputVars

\* World.tick(dt) of a scene: the PlayerSystem is handed the active entities
\* holding its required components, in some order, and processes them with
\* the key state of this frame
PlayerTick(KeyChoices, DtChoices, limit) ==
    \E key_state \in SUBSET KeyChoices, dt \in DtChoices,
       entities \in Orders(query(Cur, required_components(PlayerSystem), FALSE)) :
        /\ tickPos = 0
        /\ frame.n < limit
        /\ CommitProcess(process(PCur, dt, entities, key_state), dt)
        /\ invoked' = <<[system   |-> PlayerSystem,
                         entities |-> {entities[i] : i \in DOMAIN entities}]>>
        /\ UNCHANGED <<tickPos, tickFailure>>

\* The host mutates entities; no system is registered and no tick runs.
Next ==
    \/ CreateEntity(MaxEntities)
    \/ AddComponent
    \/ RemoveComponent
    \/ AddTag
    \/ RemoveTag
    \/ SetActive
    \/ Destroy

Spec == Init /\ [][Next]_vars

\* Entities are created with and without a supplied id, gain components and
\* tags, are deactivated and destroyed.
NextIds ==
    \/ CreateEntity(MaxEntities)
    \/ CreateEntityWithId(MaxEntities)
    \/ AddComponent
    \/ AddTag
    \/ SetActive
    \/ Destroy

SpecIds == Init /\ [][NextIds]_vars

\* Entities carry components whose hooks may raise.
NextFault ==
    \/ CreateEntity(MaxFaultEntities)
    \/ AddComponentHookRaises
    \/ RemoveComponentHookRaises
    \/ DestroyHookRaises
    \/ AddTag
    \/ RemoveTag
    \/ SetActive

SpecFault == Init /\ [][NextFault]_vars

\* Entities are mutated and looked into.
NextLookup ==
    \/ CreateEntity(MaxLookupEntities)
    \/ AddComponent
    \/ RemoveComponent
    \/ AddTag
    \/ RemoveTag
    \/ SetActive
    \/ Destroy
    \/ GetComponent
    \/ HasComponent
    \/ HasComponents
    \/ HasTag
    \/ IsActive

SpecLookup == Init /\ [][NextLookup]_vars

\* dt of a frame: a tenth of a second, a second, a sixtieth
MoveDts == {FLit(1, 10), FInt(1), FLit(1, 60)}

\* One player entity, with or without physics, is moved by the keys.
InitMove == InitScene(1, {FInt(100), FInt(150)}, Bodies, {NoCallback})

NextMove == PlayerTick(MoveKeys \cup {sprint_key}, MoveDts, MaxMoveFrames)

SpecMove == InitMove /\ [][NextMove]_vars

\* Player entities with and without an interaction callback; the interact key
\* is pressed, held and released over the frames, entities are deactivated
\* and reactivated between the frames.
InitInteract ==
    InitScene(MaxPlayers, {FInt(150)}, {"none"}, {NoCallback, Callback("note", None, "")})

NextInteract ==
    \/ PlayerTick({interact_key, sprint_key}, {FLit(1, 10)}, MaxFrames)
    \/ SetActive

SpecInteract == InitInteract /\ [][NextInteract]_vars

\* The callbacks a scene registers that work on a player entity
EntityCallbacks ==
    {Callback("remove_component", h, T) : h \in 1..MaxPlayers,
                                          T \in {"PlayerController", "Transform"}}
    \cup {Callback("set_active", h, "") : h \in 1..MaxPlayers}
    \cup {Callback("destroy", h, "") : h \in 1..MaxPlayers}

\* Player entities whose interaction callbacks work on player entities.
InitCallback ==
    InitScene(MaxPlayers, {FInt(150)}, {"none"}, EntityCallbacks \cup {NoCallback})

NextCallback == PlayerTick({interact_key}, {FLit(1, 10)}, MaxFrames)

SpecCallback == InitCallback /\ [][NextCallback]_vars

\* Systems are registered and the World ticks; entities are mutated by the host
\* between ticks and by the system that is processing during a tick.
NextTick ==
    \/ CreateEntity(MaxTickEntities)
    \/ CreateEntityWithId(MaxTickEntities)
    \/ AddComponent
    \/ RemoveComponent
    \/ AddTag
    \/ RemoveTag
    \/ SetActive
    \/ Destroy
    \/ RegisterSystem
    \/ TickBegin
    \/ SystemReturn

SpecTick == Init /\ [][NextTick]_vars
\* =================================================================== claims
\* The reference the indexes are compared with: a full scan over the entity
\* objects registered in the World, reading each entity's own fields.
NaiveScan(S, include_inactive) ==
    {h \in Live : /\ include_inactive \/ active[h]
                  /\ \A T \in S : T \in KeySet(components[h])}

NonEmptyTypeSets == (SUBSET Types) \ {{}}

HookEvents(kind) == SelectSeq(last.events, LAMBDA e : e.ev = kind)

\* C1: after any sequence of entity operations, for every non-empty set S of
\* component types query(S) is exactly the set of live, active entities
\* holding every type of S, and query(S, include_inactive) the same without
\* the active filter: the index lookup agrees with a full scan.
C1_QueryMatchesFullScan ==
    \A S \in NonEmptyTypeSets :
        /\ query(Cur, S, FALSE) = NaiveScan(S, FALSE)
        /\ query(Cur, S, TRUE)  = NaiveScan(S, TRUE)

\* Two live entities, one deactivated and holding A only, the other active and
\* holding A and B: the queries tell them apart.
C1_Witness ==
    \E h1, h2 \in Live :
        /\ h1 # h2
        /\ ~active[h1] /\ KeySet(components[h1]) = {"A"}
        /\ active[h2]  /\ KeySet(components[h2]) = {"A", "B"}
        /\ query(Cur, {"A"}, FALSE) = {h2}
        /\ query(Cur, {"A"}, TRUE) = {h1, h2}
        /\ query(Cur, {"A", "B"}, FALSE) = {h2}

\* C2: add_component(c) on an entity that already holds a component of c's
\* type fails with DuplicateComponentError and changes nothing: not the
\* entity's mapping, not c's back-reference, no hook, no World index.
C2_DuplicateAddRejectedUnchanged ==
    \A h \in Live, c \in Comps :
        get_component_type(c) \in KeySet(components[h]) =>
            LET r == add_component(Cur, h, c)
            IN /\ r.raised = DuplicateComponentError
               /\ r.events = <<>>
               /\ r.components = components
               /\ r.compEntity = compEntity
               /\ r.tags = tags /\ r.active = active
               /\ r.registry = registry /\ r.typeIndex = typeIndex
               /\ r.tagIndex = tagIndex /\ r.activeView = activeView

\* A component instance that was never attached has just been rejected by an
\* entity holding another instance of its type.
C2_Witness ==
    /\ last.op = "add_component"
    /\ last.raised = DuplicateComponentError
    /\ DictGet(components[last.h], last.T) # None
    /\ DictGet(components[last.h], last.T) # last.c
    /\ compEntity[last.c] = None

\* C3: once destroy() has returned for an entity, the entity is in no
\* registry entry, no type index, no tag index and no query result, for any
\* required set and either value of include_inactive.
C3_DestroyedEntityAbsent ==
    \A h \in destroyed :
        /\ \A i \in DOMAIN registry : registry[i] # h
        /\ entityId[h] \notin DOMAIN registry
        /\ \A T \in Types : entityId[h] \notin typeIndex[T]
        /\ \A t \in Tags : entityId[h] \notin tagIndex[t]
        /\ entityId[h] \notin activeView
        /\ \A S \in SUBSET Types, inc \in BOOLEAN : h \notin query(Cur, S, inc)

\* An entity holding two components and a tag has just been destroyed, the
\* tag still being in its own tag set.
C3_Witness ==
    /\ last.op = "destroy"
    /\ last.h \in destroyed
    /\ Len(HookEvents("on_remove")) = 2
    /\ tags[last.h] # {}
\* ------------------------------------------------------------ tick claims
IsPrefix(p, q) == Len(p) <= Len(q) /\ \A k \in 1..Len(p) : p[k] = q[k]

InvokedSystems == [k \in 1..Len(invoked) |-> invoked[k].system]

\* The state right after tick() has handed a list to a system
JustHanded == last.op \in {"tick", "process_return"} /\ tickPos > 0

\* C4: tick invokes every registered system exactly once, one after the
\* other in registration order, and that order is the same on every tick:
\* the systems invoked by the current or last tick are always a prefix of the
\* registered list, as long as the position of the tick, and the whole list
\* when the tick returns.
C4_SystemsRunInRegistrationOrder ==
    /\ IsPrefix(InvokedSystems, systems)
    /\ tickPos > 0 => Len(invoked) = tickPos
    /\ (last.op = "process_return" /\ tickPos = 0) => InvokedSystems = systems
    /\ \A j, k \in 1..Len(invoked) : j # k => invoked[j].system # invoked[k].system

\* A tick over two systems registered as 2 then 1 has returned, an entity
\* having been handed to the first and not to the second.
C4_Witness ==
    /\ last.op = "process_return" /\ tickPos = 0
    /\ systems = <<2, 1>>
    /\ InvokedSystems = <<2, 1>>
    /\ invoked[1].entities # invoked[2].entities

\* C5: the list handed to each system of a tick is the query of its required
\* set at the moment it is entered, after the earlier systems of the tick
\* have finished: it equals a full scan of the entities as they are then.
C5_HandedListIsCurrentQuery ==
    JustHanded =>
        invoked[tickPos].entities =
            NaiveScan(required_components(systems[tickPos]), FALSE)

\* The first system (requiring A and B) was handed the entity; the second
\* (requiring only A) has just been entered and is handed nothing, the entity
\* having lost A, its active flag or its registration during the first turn.
C5_Witness ==
    /\ JustHanded /\ tickPos = 2
    /\ systems = <<2, 1>>
    /\ invoked[1].entities # {}
    /\ invoked[2].entities = {}

\* C6: an inactive entity is in no default query result and in no list just
\* handed to a system, whatever components it holds; an entity that has just
\* been reactivated is in the result of every query it satisfies.
C6_InactiveExcludedUntilReactivated ==
    /\ \A h \in Live :
          ~active[h] =>
             /\ \A S \in SUBSET Types : h \notin query(Cur, S, FALSE)
             /\ JustHanded => h \notin invoked[tickPos].entities
    /\ (last.op = "set_active" /\ last.flag /\ last.h \in Live) =>
          \A S \in SUBSET Types :
             has_components(Cur, last.h, S) => last.h \in query(Cur, S, FALSE)

\* During a system's turn an entity that satisfies the system's required set
\* but was left out of its list has just been reactivated and is returned by
\* the query again.
C6_Witness ==
    /\ tickPos > 0
    /\ last.op = "set_active" /\ last.flag /\ last.events # <<>>
    /\ has_components(Cur, last.h, required_components(systems[tickPos]))
    /\ last.h \notin invoked[tickPos].entities
    /\ last.h \in query(Cur, required_components(systems[tickPos]), FALSE)

\* ------------------------------------------------- component link claims
\* C7 (as claimed): no two entities hold the same component instance, and
\* add_component of an instance attached elsewhere raises an error.
C7_ComponentOnAtMostOneEntity ==
    /\ \A h1, h2 \in Handles :
          h1 # h2 => ValueSet(components[h1]) \cap ValueSet(components[h2]) = {}
    /\ (/\ last.op = "add_component"
        /\ \E g \in Handles \ {last.h} : last.c \in ValueSet(components[g]))
          => last.raised # ""

\* C8 (as claimed): a component's back-reference names an entity only while
\* that entity's mapping holds the component under its type.
C8_BackReferenceOnlyWhileAttached ==
    \A c \in Comps :
        compEntity[c] # None =>
            DictGet(components[compEntity[c]], get_component_type(c)) = c

\* C9: a successful add_component(c) on E runs c's on-attach hook exactly
\* once, at a moment when c's back-reference is E, E's mapping holds c under
\* its type and the type index lists E; the call returns E.
C9_OnAttachAfterLinkAndIndex ==
    (last.op = "add_component" /\ last.raised = "") =>
        LET hooks == HookEvents("on_add")
        IN /\ Len(hooks) = 1
           /\ hooks[1].c = last.c
           /\ hooks[1].backref = last.h
           /\ hooks[1].linked
           /\ hooks[1].indexed
           /\ last.ret = last.h
           /\ DictGet(components[last.h], last.T) = last.c
           /\ entityId[last.h] \in typeIndex[last.T]

C9_Witness ==
    /\ last.op = "add_component" /\ last.raised = ""
    /\ Len(HookEvents("on_add")) = 1
    /\ Len(components[last.h]) = 2

\* C10: remove_component(T) on an entity holding c under T runs c's
\* on-detach hook exactly once, while c is still in the mapping and the
\* entity still in the type index of T; after the call c is out of the
\* mapping, the entity out of the index, and c is what the call returned.
C10_OnDetachBeforeUnlink ==
    /\ (last.op = "remove_component" /\ last.ret # None) =>
          LET hooks == HookEvents("on_remove")
          IN /\ Len(hooks) = 1
             /\ hooks[1].c = last.ret
             /\ hooks[1].linked
             /\ hooks[1].indexed
             /\ last.events[1].ev = "on_remove"
             /\ last.T \notin KeySet(components[last.h])
             /\ entityId[last.h] \notin typeIndex[last.T]
    /\ \A h \in Live, T \in Types :
          T \in KeySet(components[h]) =>
             remove_component(Cur, h, T).ret = DictGet(components[h], T)

C10_Witness ==
    /\ last.op = "remove_component" /\ last.ret # None
    /\ get_component_type(last.ret) = last.T
    /\ Len(HookEvents("on_remove")) = 1
    /\ components[last.h] # <<>>

\* --------------------------------------------------------- destroy order
\* C11: destroy() detaches the components the entity holds one at a time,
\* each detach being the on-detach hook (component still linked and
\* indexed) followed by the World's component-removed notification for the
\* same component, and the World's entity removal comes once, last, after
\* every detach: the calls of a destroy are hook, notification, hook,
\* notification, ..., entity removal, one pair per component held.
C11_DestroyDetachesThenErases ==
    \A h \in Live :
        LET d == components[h]
            r == destroy(Cur, h)
            n == Len(d)
        IN /\ Len(r.events) = 2 * n + 1
           /\ \A k \in 1..n :
                 /\ r.events[2 * k - 1].ev = "on_remove"
                 /\ r.events[2 * k - 1].c = d[k][2]
                 /\ r.events[2 * k - 1].linked
                 /\ r.events[2 * k - 1].indexed
                 /\ r.events[2 * k].ev = "_entity_component_removed"
                 /\ r.events[2 * k].c = d[k][2]
           /\ r.events[2 * n + 1].ev = "_remove_entity"
           /\ r.components[h] = <<>>

\* An entity holding two components has just been destroyed: five calls were
\* made, the World's entity removal being the last.
C11_Witness ==
    /\ last.op = "destroy"
    /\ Len(last.events) = 5
    /\ last.events[3].ev = "on_remove"
    /\ last.events[5].ev = "_remove_entity"
    /\ components[last.h] = <<>>

\* ----------------------------------------------------------- identifiers
\* C12 (as claimed): the identifier of a destroyed entity is never the
\* identifier of a live entity again.
C12_DestroyedIdNeverLiveAgain ==
    \A h \in destroyed : entityId[h] \notin DOMAIN registry

\* C13: create_entity(id) with the id of a live entity fails with
\* DuplicateIdError and changes nothing: no Entity is constructed, the
\* registry and every index are as before, and so are the components, tags
\* and active flag of the entity that has the id.
C13_DuplicateIdRejectedUnchanged ==
    \A id \in SuppliedIds :
        id \in DOMAIN registry =>
            LET r == create_entity(Cur, id)
            IN /\ r.raised = "DuplicateIdError"
               /\ r.numCreated = numCreated
               /\ r.entityId = entityId
               /\ r.registry = registry
               /\ r.typeIndex = typeIndex /\ r.tagIndex = tagIndex
               /\ r.activeView = activeView
               /\ r.components = components /\ r.tags = tags /\ r.active = active
               /\ r.compEntity = compEntity
               /\ r.events = <<>>

\* create_entity has just been refused for the id of a live entity that is
\* deactivated and holds a component and a tag.
C13_Witness ==
    /\ last.op = "create_entity"
    /\ last.raised = "DuplicateIdError"
    /\ last.id \in DOMAIN registry
    /\ LET h == registry[last.id]
       IN components[h] # <<>> /\ tags[h] # {} /\ ~active[h]
    /\ Cardinality(DOMAIN registry) = 1

\* C14 (as claimed): an entity created with a supplied id has exactly that
\* id, also for a falsy one; an id is generated only when none is supplied;
\* the ids of the live entities are pairwise distinct.
C14_SuppliedIdIsKept ==
    /\ (last.op = "create_entity" /\ last.raised = "") =>
          IF last.id # NoId THEN entityId[last.ret] = last.id
          ELSE entityId[last.ret] = uuid4(last.ret)
    /\ \A h1, h2 \in Live : h1 # h2 => entityId[h1] # entityId[h2]

\* -------------------------------------------------------------- tag index
\* C15: for every tag t the World's tag index for t holds exactly the ids of
\* the live entities whose tag set contains t, and has_tag(t) of a live
\* entity is true exactly when the entity is in that index entry.
C15_TagIndexMatchesTagSets ==
    \A t \in Tags :
        /\ tagIndex[t] = {entityId[h] : h \in {g \in Live : t \in tags[g]}}
        /\ \A h \in Live : has_tag(Cur, h, t) <=> entityId[h] \in tagIndex[t]

\* A tag has just been removed from one of two live entities that both held
\* it, after the other one was deactivated.
C15_Witness ==
    /\ last.op = "remove_tag" /\ last.ret = 1
    /\ \E g \in Live \ {last.h} :
          /\ "enemy" \in tags[g] /\ ~active[g]
          /\ tagIndex["enemy"] = {entityId[g]}
    /\ destroyed = {}

\* ------------------------------------------------------ detach, re-attach
\* A component instance that was never attached to an entity
Fresh(c) == compEntity[c] = None /\ \A h \in Handles : c \notin ValueSet(components[h])

\* C16: on an entity holding a component of type T, remove_component(T)
\* followed by add_component of a freshly constructed instance of T
\* succeeds, and the entity's component types, every type index and every
\* query result are then what they were with the first instance attached.
C16_DetachThenAttachFresh ==
    \A h \in Live, c \in Comps :
        (Fresh(c) /\ get_component_type(c) \in KeySet(components[h])) =>
            LET T  == get_component_type(c)
                r1 == remove_component(Cur, h, T)
                r2 == add_component([r1 EXCEPT !.events = <<>>], h, c)
            IN /\ r1.ret = DictGet(components[h], T)
               /\ r2.raised = "" /\ r2.ret = h
               /\ DictGet(r2.components[h], T) = c
               /\ KeySet(r2.components[h]) = KeySet(components[h])
               /\ r2.typeIndex = typeIndex
               /\ \A S \in SUBSET Types, inc \in BOOLEAN :
                     query(r2, S, inc) = query(Cur, S, inc)

\* Instance 3 of type A has just been attached to an entity that held
\* instance 1 of type A before (1 still names the entity) and holds B too.
C16_Witness ==
    /\ last.op = "add_component" /\ last.raised = "" /\ last.c = 3
    /\ compEntity[1] = last.h
    /\ DictGet(components[last.h], "A") = 3
    /\ KeySet(components[last.h]) = {"A", "B"}
    /\ \A g \in Handles \ {last.h} : components[g] = <<>>

\* ------------------------------------------------------------- no-op calls
\* C19: remove_component(T) on an entity holding no component of type T
\* returns None, runs no hook, notifies nobody and changes nothing.
C19_RemoveAbsentIsNoOp ==
    \A h \in Live, T \in Types :
        T \notin KeySet(components[h]) =>
            LET r == remove_component(Cur, h, T)
            IN /\ r.ret = None /\ r.raised = ""
               /\ r.events = <<>>
               /\ r.components = components /\ r.tags = tags /\ r.active = active
               /\ r.compEntity = compEntity
               /\ r.registry = registry /\ r.typeIndex = typeIndex
               /\ r.tagIndex = tagIndex /\ r.activeView = activeView

\* remove_component("B") has just returned None on an entity that holds a
\* component of type A and a tag.
C19_Witness ==
    /\ last.op = "remove_component" /\ last.T = "B"
    /\ last.ret = None /\ last.events = <<>>
    /\ KeySet(components[last.h]) = {"A"}
    /\ tags[last.h] # {}

\* C20: set_active(v) with v the current flag changes nothing and does not
\* notify the World; with v different, the flag becomes v and the World's
\* active-changed notification is called exactly once.
C20_SetActiveNotifiesOnChangeOnly ==
    \A h \in Live, v \in BOOLEAN :
        LET r == set_active(Cur, h, v)
        IN IF v = active[h]
           THEN /\ r.events = <<>>
                /\ r.active = active /\ r.activeView = activeView
                /\ r.components = components /\ r.tags = tags
                /\ r.typeIndex = typeIndex /\ r.tagIndex = tagIndex
                /\ r.registry = registry
           ELSE /\ r.active[h] = v
                /\ \A g \in Handles \ {h} : r.active[g] = active[g]
                /\ Len(r.events) = 1
                /\ r.events[1].ev = "_entity_active_changed"
                /\ r.events[1].h = h

\* set_active(False) has just been called on an entity that was already
\* inactive: no notification was sent.
C20_Witness ==
    /\ last.op = "set_active" /\ ~last.flag
    /\ last.events = <<>>
    /\ ~active[last.h]
    /\ entityId[last.h] \notin activeView

\* ------------------------------------------------------------ failed calls
\* The World's indexes agree with the entities' own fields
IndexesConsistent ==
    /\ \A T \in Types :
          typeIndex[T] = {entityId[h] : h \in {g \in Live : T \in KeySet(components[g])}}
    /\ \A t \in Tags :
          tagIndex[t] = {entityId[h] : h \in {g \in Live : t \in tags[g]}}
    /\ activeView = {entityId[h] : h \in {g \in Live : active[g]}}

\* The entities' and the World's state
ProgramState ==
    <<entityId, components, tags, active, registry, typeIndex, tagIndex, activeView>>

\* The last call has taken effect, in the entity and in the World
LastCallReflected ==
    LET l == last
    IN
    CASE l.op = "add_component" ->
            /\ DictGet(components[l.h], l.T) = l.c
            /\ entityId[l.h] \in typeIndex[l.T]
      [] l.op = "remove_component" ->
            /\ l.T \notin KeySet(components[l.h])
            /\ entityId[l.h] \notin typeIndex[l.T]
      [] l.op = "destroy" ->
            /\ l.h \notin Live
            /\ components[l.h] = <<>>
            /\ \A T \in Types : entityId[l.h] \notin typeIndex[T]
      [] OTHER -> FALSE

\* C17 (as claimed): a call that fails is all-or-nothing: afterwards the
\* entity state and the World's indexes agree, and either both are as
\* before the call or both reflect the operation.
C17_FailedCallAllOrNothing ==
    [][ last'.raised # "" =>
            /\ IndexesConsistent'
            /\ \/ ProgramState' = ProgramState
               \/ LastCallReflected' ]_vars

C21_SetActiveChangesOnlyActiveFlag ==
    \A h \in Live, v \in BOOLEAN :
        LET r == set_active(Cur, h, v)
        IN /\ r.entityId = entityId /\ r.components = components /\ r.tags = tags
           /\ r.compEntity = compEntity
           /\ r.registry = registry
           /\ r.typeIndex = typeIndex /\ r.tagIndex = tagIndex
           /\ \A g \in Handles \ {h} : r.active[g] = active[g]
           /\ \A S \in SUBSET Types : query(r, S, TRUE) = query(Cur, S, TRUE)

\* set_active(False) has just deactivated an entity that holds a component
\* and a tag: it is still in the type and tag indexes.
C21_Witness ==
    /\ last.op = "set_active" /\ ~last.flag /\ Len(last.events) = 1
    /\ ~active[last.h]
    /\ components[last.h] # <<>> /\ tags[last.h] # {}
    /\ \A T \in KeySet(components[last.h]) : entityId[last.h] \in typeIndex[T]
    /\ last.h \in query(Cur, KeySet(components[last.h]), TRUE)
    /\ last.h \notin query(Cur, KeySet(components[last.h]), FALSE)

\* The lookups of Entity
LookupOps == {"get_component", "has_component", "has_components", "has_tag", "is_active"}

\* C22: get_component, has_component, has_components, has_tag and is_active
\* change nothing in the entities or in the World's indexes and notify
\* nobody; get_component(T) returns the component the entity holds for T on
\* the call, and what an entity holds for T is the instance of the latest
\* successful add_component of type T, until remove_component(T) or destroy
\* takes it away (None then, and None on a new entity).
C22_LookupsNeverMutate ==
    [][ /\ last'.op \in LookupOps =>
              /\ ProgramState' = ProgramState
              /\ compEntity' = compEntity
              /\ last'.events = <<>> /\ last'.raised = ""
              /\ last'.op = "get_component" =>
                     last'.ret = get_component(Cur, last'.h, last'.T)
        /\ \A h \in Handles, T \in Types :
              get_component(Cur, h, T)' =
                  IF last'.op = "add_component" /\ last'.raised = ""
                     /\ last'.h = h /\ last'.T = T
                  THEN last'.c
                  ELSE IF \/ last'.op = "remove_component" /\ last'.h = h /\ last'.T = T
                          \/ last'.op = "destroy" /\ last'.h = h
                          \/ last'.op = "create_entity" /\ last'.ret = h
                       THEN None
                       ELSE get_component(Cur, h, T)
      ]_vars

\* get_component("A") has just returned the component a tagged entity holds
\* for A, another instance of type A being attached nowhere; the entity holds
\* nothing for B.
C22_Witness ==
    /\ last.op = "get_component" /\ last.T = "A"
    /\ last.ret # None /\ last.ret = DictGet(components[last.h], "A")
    /\ \E c \in Comps : get_component_type(c) = "A" /\ c # last.ret /\ compEntity[c] = None
    /\ get_component(Cur, last.h, "B") = None
    /\ tags[last.h] # {}

\* ------------------------------------------------------------ player system
\* Number of times x occurs in a sequence
Count(sq, x) == Cardinality({i \in DOMAIN sq : sq[i] = x})

\* The entities of the list PlayerSystem.process was last called with
ListedEntities == {psys.player_entities[i] : i \in DOMAIN psys.player_entities}

\* PlayerSystem.process has just been called
ProcessCalled == frame'.n = frame.n + 1

\* C23: in every PlayerSystem.process call the snapshot of the call before is
\* kept as previous_keys, and the interaction callback of each entity of the
\* list is invoked once when the interact key is in this call's snapshot and
\* not in the previous one, and not at all otherwise: a key held over
\* consecutive calls fires on the first of them only, and again only after a
\* call has seen it released.
C23_InteractionIsEdgeTriggered ==
    [][ ProcessCalled =>
          /\ psys'.previous_keys = psys.keys_pressed
          /\ \A h \in ListedEntities' :
                LET c == DictGet(components'[h], "PlayerController")
                IN Count(frame'.fired, c) =
                       IF /\ ctrl'[c].on_interact # NoCallback
                          /\ interact_key \in psys'.keys_pressed
                          /\ interact_key \notin psys.keys_pressed
                       THEN 1 ELSE 0
      ]_vars

\* The fourth call sees the interact key pressed, which the third saw
\* released: the callback of a listed entity has just been invoked, once;
\* another listed entity has no callback.
C23_Witness ==
    /\ last.op = "tick" /\ frame.n = 4
    /\ interact_key \in psys.keys_pressed /\ interact_key \notin psys.previous_keys
    /\ \E h \in ListedEntities :
          LET c == DictGet(components[h], "PlayerController")
          IN ctrl[c].on_interact # NoCallback /\ Count(frame.fired, c) = 1
    /\ \E h \in ListedEntities :
          ctrl[DictGet(components[h], "PlayerController")].on_interact = NoCallback

\* ---------------------------------------------------------------- movement
\* Key states with movement keys and the sprint key
MoveKeyStates == SUBSET (MoveKeys \cup {sprint_key})

\* 1 for a pressed key, 0 otherwise
Pressed(key, K) == IF key \in K THEN 1 ELSE 0

\* The direction of the pressed movement keys: right minus left, down minus
\* up, of unit length when both are non-zero
KeyDirection(K) ==
    LET dx == Pressed(move_keys.right, K) - Pressed(move_keys.left, K)
        dy == Pressed(move_keys.down, K) - Pressed(move_keys.up, K)
    IN IF dx # 0 /\ dy # 0
       THEN <<FDiv(FInt(dx), FSqrt(FInt(2))), FDiv(FInt(dy), FSqrt(FInt(2)))>>
       ELSE <<FInt(dx), FInt(dy)>>

\* a + d * speed * dt
Advanced(a, d, speed, dt) == FAdd(a, FMul(FMul(d, speed), dt))

\* The components of entity h
ControllerOf(h) == DictGet(components[h], "PlayerController")
TransformOfEntity(h) == DictGet(components[h], "Transform")
RigidBodyOfEntity(h) == DictGet(components[h], "RigidBody")

\* Entity h is active, holds a Transform and a PlayerController and no
\* kinematic RigidBody
MovesDirectly(h) ==
    /\ h \in Live /\ active[h]
    /\ ControllerOf(h) # None /\ TransformOfEntity(h) # None
    /\ RigidBodyOfEntity(h) = None \/ ~rigid[RigidBodyOfEntity(h)].is_kinematic

\* The position of entity h's Transform after a tick with time step dt and
\* key state K is the position before plus direction * speed * dt
PositionAdvancedBy(h, K, dt, speed) ==
    LET r   == process(PCur, dt, <<h>>, K)
        tr  == TransformOfEntity(h)
        d   == KeyDirection(K)
    IN r.transform[tr].position =
           <<Advanced(transform[tr].position[1], d[1], speed, dt),
             Advanced(transform[tr].position[2], d[2], speed, dt)>>

\* The scenario: move_speed 100, dt 0.1, only "right" pressed, from (0, 0)
ScenarioHolds(h) ==
    (ctrl[ControllerOf(h)].move_speed = FInt(100)
     /\ transform[TransformOfEntity(h)].position = <<Zero, Zero>>) =>
        process(PCur, FLit(1, 10), <<h>>, {move_keys.right})
            .transform[TransformOfEntity(h)].position = <<FInt(10), Zero>>

\* C24 as stated: for every key state, sprint key included, the tick adds
\* (dx * move_speed * dt, dy * move_speed * dt) to the position.
C24_TickAddsDirectionTimesMoveSpeed ==
    [][ ProcessCalled =>
          \A h \in ListedEntities' : MovesDirectly(h) =>
              LET tr == TransformOfEntity(h)
                  d  == KeyDirection(psys'.keys_pressed)
                  move_speed == ctrl[ControllerOf(h)].move_speed
              IN transform'[tr].position =
                     <<Advanced(transform[tr].position[1], d[1], move_speed, frame'.dt),
                       Advanced(transform[tr].position[2], d[2], move_speed, frame'.dt)>>
      ]_vars

\* C24, amended: the tick adds (dx * speed * dt, dy * speed * dt) to the
\* position, where speed is move_speed when the sprint key is not pressed and
\* move_speed * sprint_multiplier when it is; with move_speed 100, dt 0.1,
\* only "right" pressed and position (0, 0), the position becomes (10, 0).
C24_TickAddsDirectionTimesSpeed ==
    \A h \in Handles : MovesDirectly(h) =>
        /\ \A K \in MoveKeyStates, dt \in MoveDts :
              PositionAdvancedBy(h, K, dt,
                  IF sprint_key \in K
                  THEN FMul(ctrl[ControllerOf(h)].move_speed,
                            ctrl[ControllerOf(h)].sprint_multiplier)
                  ELSE ctrl[ControllerOf(h)].move_speed)
        /\ ScenarioHolds(h)

\* The scenario has run: an entity without RigidBody, move_speed 100, was
\* ticked once with dt 0.1 and only "right" pressed, and stands at (10, 0).
C24_Witness ==
    /\ last.op = "tick" /\ frame.n = 1 /\ frame.dt = FLit(1, 10)
    /\ psys.keys_pressed = {move_keys.right}
    /\ \E h \in ListedEntities :
          /\ RigidBodyOfEntity(h) = None
          /\ ctrl[ControllerOf(h)].move_speed = FInt(100)
          /\ ctrl[ControllerOf(h)].is_moving
          /\ transform[TransformOfEntity(h)].position = <<FInt(10), Zero>>

\* C25: the per-entity step of PlayerSystem does one of two things.  For an
\* entity holding a RigidBody with is_kinematic set, the velocity of the
\* rigid body becomes displacement / dt and no Transform changes; for any
\* other entity the position of its Transform is advanced by the
\* displacement and no RigidBody changes.
C25_VelocityOrPositionNeverBoth ==
    \A h \in Live : (ControllerOf(h) # None /\ TransformOfEntity(h) # None) =>
        \A K \in MoveKeyStates, dt \in MoveDts :
            LET r0 == [PCur EXCEPT !.psys.keys_pressed = K]
                r1 == _process_entity(r0, dt, h)
                m  == r1.movement
                tr == TransformOfEntity(h)
                rb == RigidBodyOfEntity(h)
            IN /\ r1.raised = ""
               /\ IF rb # None /\ rigid[rb].is_kinematic
                  THEN /\ r1.rigid = [rigid EXCEPT ![rb].velocity =
                                         <<FDiv(m[1], dt), FDiv(m[2], dt)>>]
                       /\ r1.transform = transform
                  ELSE /\ r1.transform = [transform EXCEPT ![tr].position =
                                             <<FAdd(@[1], m[1]), FAdd(@[2], m[2])>>]
                       /\ r1.rigid = rigid

\* An entity with a kinematic RigidBody was ticked with "left" and "down"
\* pressed: its velocity is set, its position is still (0, 0).
C25_Witness ==
    /\ last.op = "tick" /\ frame.n = 1
    /\ psys.keys_pressed = {move_keys.left, move_keys.down}
    /\ \E h \in ListedEntities :
          LET rb == RigidBodyOfEntity(h)
          IN /\ rb # None /\ rigid[rb].is_kinematic
             /\ FLeq(rigid[rb].velocity[1], FInt(-100))
             /\ FLeq(FInt(100), rigid[rb].velocity[2])
             /\ transform[TransformOfEntity(h)].position = <<Zero, Zero>>
             /\ ctrl[ControllerOf(h)].is_moving

\* -------------------------------------------------------------- normalising
\* The length of a vector
Magnitude(v) == FSqrt(FAdd(FMul(v[1], v[1]), FMul(v[2], v[2])))

\* |a - b| <= tol
Within(a, b, tol) == FLeq(FAdd(a, FNeg(b)), tol) /\ FLeq(FAdd(b, FNeg(a)), tol)

\* Key states with one horizontal and one vertical movement key, no sprint
DiagonalKeyStates ==
    {{x, y} : x \in {move_keys.left, move_keys.right},
              y \in {move_keys.up, move_keys.down}}

\* The vector process_input returns for controller c
Returned(c, dt, K) == process_input(PCur, c, dt, K).movement

\* C26: with two perpendicular movement keys pressed, the direction is
\* brought to unit length before it is scaled: its components have equal
\* absolute value and the displacement has magnitude speed * dt within
\* rounding; for "up" and "right" with move_speed 150, dt 1.0 and no sprint
\* the displacement has magnitude 150 within 0.05 and components within 0.01
\* of 106.07 and -106.07, and is not (150, -150).
C26_DiagonalIsNormalized ==
    \A c \in DOMAIN ctrl :
        /\ \A K \in DiagonalKeyStates, dt \in MoveDts :
              LET r == process_input(PCur, c, dt, K)
                  d == r.ctrl[c].move_direction
                  m == r.movement
              IN /\ Within(Magnitude(d), One, FLit(1, 1000))
                 /\ Abs(d[1].m) = Abs(d[2].m) /\ d[1].e = d[2].e
                 /\ Abs(m[1].m) = Abs(m[2].m) /\ m[1].e = m[2].e
                 /\ Within(Magnitude(m), FMul(ctrl[c].move_speed, dt),
                           FMul(FMul(ctrl[c].move_speed, dt), FLit(1, 1000)))
        /\ ctrl[c].move_speed = FInt(150) =>
              LET m == Returned(c, FInt(1), {move_keys.up, move_keys.right})
              IN /\ Within(Magnitude(m), FInt(150), FLit(5, 100))
                 /\ Within(m[1], FLit(10607, 100), FLit(1, 100))
                 /\ Within(m[2], FNeg(FLit(10607, 100)), FLit(1, 100))
                 /\ m # <<FInt(150), FInt(-150)>>

\* An entity without RigidBody, move_speed 150, was ticked once from (0, 0)
\* with dt 1.0 and "up" and "right" pressed: it stands about 106.07 to the
\* right and 106.07 up.
C26_Witness ==
    /\ last.op = "tick" /\ frame.n = 1 /\ frame.dt = FInt(1)
    /\ psys.keys_pressed = {move_keys.up, move_keys.right}
    /\ \E h \in ListedEntities :
          /\ RigidBodyOfEntity(h) = None
          /\ ctrl[ControllerOf(h)].move_speed = FInt(150)
          /\ ~ctrl[ControllerOf(h)].is_sprinting
          /\ Within(transform[TransformOfEntity(h)].position[1],
                    FLit(10607, 100), FLit(1, 100))
          /\ Within(transform[TransformOfEntity(h)].position[2],
                    FNeg(FLit(10607, 100)), FLit(1, 100))

\* ------------------------------------------------------------------ sprint
\* sprint_multiplier * v, component by component
TimesMultiplier(c, v) ==
    <<FMul(ctrl[c].sprint_multiplier, v[1]), FMul(ctrl[c].sprint_multiplier, v[2])>>

\* |a - b| <= |b| / 1000
Close(a, b) == Within(a, b, FMul(FInt(Sign(b.m)), FMul(b, FLit(1, 1000))))

\* C27 as stated: the displacement with the sprint key held equals
\* sprint_multiplier times the displacement for the same movement keys
\* without it, component by component.
C27_SprintEqualsMultiplierTimesWalk ==
    [][ (ProcessCalled /\ sprint_key \in psys'.keys_pressed) =>
          \A h \in ListedEntities' : MovesDirectly(h) =>
              LET c  == ControllerOf(h)
                  tr == TransformOfEntity(h)
                  walk == Returned(c, frame'.dt, psys'.keys_pressed \ {sprint_key})
              IN <<FAdd(transform'[tr].position[1], FNeg(transform[tr].position[1])),
                   FAdd(transform'[tr].position[2], FNeg(transform[tr].position[2]))>>
                     = TimesMultiplier(c, walk)
      ]_vars

\* C27, amended: the displacement with the sprint key held is
\* sprint_multiplier times the displacement without it up to rounding
\* (each component within 1/1000 of its size), and exactly that when at most
\* one axis is pressed, move_speed is an integer and dt is 1.0.
C27_SprintIsMultiplierTimesWalkRounded ==
    \A c \in DOMAIN ctrl :
        \A K \in SUBSET MoveKeys, dt \in MoveDts :
            LET sprint == Returned(c, dt, K \cup {sprint_key})
                walk   == TimesMultiplier(c, Returned(c, dt, K))
            IN /\ Close(sprint[1], walk[1]) /\ Close(sprint[2], walk[2])
               /\ (dt = FInt(1) /\ K \notin DiagonalKeyStates) => sprint = walk

\* An entity was ticked with "down" and the sprint key pressed, dt 1.0: it
\* sprints and has moved down by move_speed * sprint_multiplier.
C27_Witness ==
    /\ last.op = "tick" /\ frame.n = 1 /\ frame.dt = FInt(1)
    /\ psys.keys_pressed = {move_keys.down, sprint_key}
    /\ \E h \in ListedEntities :
          /\ RigidBodyOfEntity(h) = None
          /\ ctrl[ControllerOf(h)].is_sprinting
          /\ ctrl[ControllerOf(h)].move_speed = FInt(100)
          /\ transform[TransformOfEntity(h)].position = <<Zero, FInt(150)>>

\* ------------------------------------------------------------------- input
\* The frames of Application.run, with a scene set before the first
NextApp ==
    \/ ClearEscapeQuits \/ SetScene \/ Run
    \/ ProcessEvents \/ Update \/ Render \/ Shutdown
SpecApp == Init /\ [][NextApp]_vars

\* Calls on an InputManager in any order
NextInput == ProcessEvent \/ InputUpdate
SpecInput == Init /\ [][NextInput]_vars

\* The scene's update saw event e of this frame in the one-frame query of
\* its kind
SeenByScene(e) ==
    /\ e.type = "KEYDOWN" => e.key \in app.seen.keys_down
    /\ e.type = "KEYUP" => e.key \in app.seen.keys_up
    /\ e.type = "MOUSEBUTTONDOWN" => e.button \in app.seen.mouse_buttons_down
    /\ e.type = "MOUSEBUTTONUP" => e.button \in app.seen.mouse_buttons_up

\* C28: in every frame of Application.run, a key or mouse button whose
\* down/up event was handled by process_events in that frame is still
\* reported by is_key_down / is_key_up / is_mouse_button_down /
\* is_mouse_button_up while the scene's update of that frame runs.
C28_FrameEventsReportedDuringSceneUpdate ==
    (app.pc = "render" /\ app.current_scene # None) =>
        \A i \in DOMAIN app.handled : SeenByScene(app.handled[i])

\* C29: after any sequence of process_event and update calls,
\* is_key_pressed(k) is true exactly when the most recent keyboard event
\* processed for k was a KEYDOWN, and is_mouse_button_pressed(b) exactly when
\* the most recent button event for b was a MOUSEBUTTONDOWN; so update()
\* leaves the pressed sets alone, a KEYUP for a key that is not pressed
\* changes nothing, and one KEYUP releases a key however many KEYDOWNs came.
C29_PressedIffLastEventWasDown ==
    /\ \A k \in KeyCodes :
          is_key_pressed(input, k) <=> inputLog.lastKey[k] = "KEYDOWN"
    /\ \A b \in Buttons :
          is_mouse_button_pressed(input, b) <=> inputLog.lastButton[b] = "MOUSEBUTTONDOWN"

\* A KEYDOWN for "e", an update() and a KEYUP for "e" were the last calls:
\* "e" is not pressed and is reported as released; the Escape key, pressed
\* before that update(), is still pressed.
C29_Witness ==
    /\ Len(inputLog.recent) = MaxRecent
    /\ \E i \in 1..(MaxRecent - 2) :
          /\ inputLog.recent[i] = InputEvent("KEYDOWN", "K_e", "", <<0, 0>>)
          /\ inputLog.recent[i + 1] = UpdateCall
          /\ inputLog.recent[i + 2] = InputEvent("KEYUP", "K_e", "", <<0, 0>>)
    /\ ~is_key_pressed(input, "K_e")
    /\ is_key_up(input, "K_e")
    /\ is_key_pressed(input, "K_ESCAPE") /\ ~is_key_down(input, "K_ESCAPE")

\* --------------------------------------------------- callbacks on entities
\* C30: every entity PlayerSystem processes holds a PlayerController and a
\* Transform, is registered in the World and active at the moment it is
\* processed, whatever the interaction callbacks fired for earlier entities
\* of the same list did.
C30_ProcessedEntitiesAreEligible ==
    \A i \in DOMAIN frame.processed :
        /\ frame.processed[i].controller /\ frame.processed[i].transform
        /\ frame.processed[i].live /\ frame.processed[i].active

\* ------------------------------------------------------- one-frame state
\* Calls on an InputManager in any order, registrations included
NextRegister ==
    \/ RegisterKeyCallback \/ RegisterMouseButtonCallback \/ RegisterMouseMotionCallback
    \/ ProcessEvent \/ InputUpdate
SpecRegister == Init /\ [][NextRegister]_vars

\* C38: update() clears keys_down, keys_up, mouse_buttons_down,
\* mouse_buttons_up and mouse_wheel_y and leaves keys_pressed,
\* mouse_buttons_pressed, mouse_position and the registered callbacks as
\* they were; right after it is_key_down and is_key_up are false for every
\* key.
C38_UpdateClearsExactlyOneFrameState ==
    /\ update(input) =
          [input EXCEPT !.keys_down = {}, !.keys_up = {},
                        !.mouse_buttons_down = {}, !.mouse_buttons_up = {},
                        !.mouse_wheel_y = 0]
    /\ update(input).keys_pressed = input.keys_pressed
    /\ update(input).mouse_buttons_pressed = input.mouse_buttons_pressed
    /\ update(input).mouse_position = input.mouse_position
    /\ update(input).key_callbacks = input.key_callbacks
    /\ update(input).mouse_button_callbacks = input.mouse_button_callbacks
    /\ update(input).mouse_motion_callbacks = input.mouse_motion_callbacks
    /\ \A k \in KeyCodes : ~is_key_down(update(input), k) /\ ~is_key_up(update(input), k)
    /\ (inputLog.recent # <<>> /\ inputLog.recent[Len(inputLog.recent)] = UpdateCall) =>
          /\ input.keys_down = {} /\ input.keys_up = {}
          /\ input.mouse_buttons_down = {} /\ input.mouse_buttons_up = {}
          /\ input.mouse_wheel_y = 0

\* update() was called right after a KEYUP for Escape, with "e" held down,
\* the mouse moved and a key callback registered: nothing is reported down
\* or up, "e" is still pressed, the mouse position and the callback are kept.
C38_Witness ==
    /\ Len(inputLog.recent) >= 2
    /\ inputLog.recent[Len(inputLog.recent)] = UpdateCall
    /\ inputLog.recent[Len(inputLog.recent) - 1] = InputEvent("KEYUP", "K_ESCAPE", "", <<0, 0>>)
    /\ input.keys_up = {} /\ input.keys_down = {}
    /\ input.keys_pressed = {"K_e"}
    /\ input.mouse_position = <<3, 4>>
    /\ input.key_callbacks["K_e"] = 1

\* ------------------------------------------------------------ opposite keys
\* C35: for each of the 16 sets of pressed movement keys (with or without
\* the sprint key) process_input divides by a non-zero length only, an axis
\* with both of its keys pressed contributes 0, the direction is divided by
\* its length exactly when both axes are non-zero, and a net direction of
\* (0, 0) returns the displacement (0, 0) and sets is_moving to false.
C35_OppositeKeysCancelNoDivisionByZero ==
    \A c \in DOMAIN ctrl : \A K \in MoveKeyStates, dt \in MoveDts :
        LET d == Direction(K)
            r == process_input(PCur, c, dt, K)
        IN /\ d = <<FInt(Pressed(move_keys.right, K) - Pressed(move_keys.left, K)),
                    FInt(Pressed(move_keys.down, K) - Pressed(move_keys.up, K))>>
           /\ r.raised = ""
           /\ IF d[1] # Zero /\ d[2] # Zero
              THEN /\ Magnitude(d) # Zero
                   /\ r.ctrl[c].move_direction = Scaled(d, Magnitude(d))
              ELSE r.ctrl[c].move_direction = d
           /\ d = <<Zero, Zero>> =>
                 r.movement = <<Zero, Zero>> /\ ~r.ctrl[c].is_moving
           /\ d # <<Zero, Zero>> =>
                 r.movement # <<Zero, Zero>> /\ r.ctrl[c].is_moving

\* An entity was ticked with "left", "right" and "up" pressed: left and
\* right cancel, it has moved straight up and no further.
C35_Witness ==
    /\ last.op = "tick" /\ frame.n = 1 /\ frame.raised = ""
    /\ psys.keys_pressed = {move_keys.left, move_keys.right, move_keys.up}
    /\ \E h \in ListedEntities :
          /\ RigidBodyOfEntity(h) = None
          /\ ctrl[ControllerOf(h)].move_direction = <<Zero, FInt(-1)>>
          /\ ctrl[ControllerOf(h)].is_moving
          /\ transform[TransformOfEntity(h)].position[1] = Zero
          /\ transform[TransformOfEntity(h)].position[2] # Zero

\* --------------------------------------------------------------- tags twice
\* The tag-added notifications of the call add_tag(s, h, tag)
TagAddedSent(s, h, tag) ==
    SelectSeq(add_tag(s, h, tag).events, LAMBDA e : e.ev = "_entity_tag_added")

\* C33: add_tag(t) on an entity that already holds t leaves the tag sets and
\* the World's tag index as they were, with the entity listed under t, and
\* sends the tag-added notification once more; one remove_tag(t) after it
\* takes the entity out of the tag index for t and out of every query by tag.
C33_AddTagIsIdempotent ==
    \A h \in Live, tag \in Tags : tag \in tags[h] =>
        /\ add_tag(Cur, h, tag).tags = tags
        /\ add_tag(Cur, h, tag).tagIndex = tagIndex
        /\ entityId[h] \in add_tag(Cur, h, tag).tagIndex[tag]
        /\ Len(TagAddedSent(Cur, h, tag)) = 1
        /\ remove_tag(add_tag(Cur, h, tag), h, tag).ret = 1
        /\ entityId[h] \notin remove_tag(add_tag(Cur, h, tag), h, tag).tagIndex[tag]
        /\ tag \notin remove_tag(add_tag(Cur, h, tag), h, tag).tags[h]
        /\ remove_tag(remove_tag(add_tag(Cur, h, tag), h, tag), h, tag).ret = 0

\* add_tag was just called for a tag the entity held and was listed under
\* already: the notification was sent, the entity holds the tag and is listed.
C33_Witness ==
    /\ last.op = "add_tag" /\ last.h \in Live
    /\ Len(HookEvents("_entity_tag_added")) = 1
    /\ HookEvents("_entity_tag_added")[1].indexed
    /\ last.tag \in tags[last.h]
    /\ entityId[last.h] \in tagIndex[last.tag]

\* ------------------------------------------------------ no required type
\* A System that requires no component is registered and the World ticks
NextEvery ==
    \/ CreateEntity(MaxEveryEntities)
    \/ AddComponent
    \/ SetActive
    \/ Destroy
    \/ RegisterEverySystem
    \/ TickBegin
    \/ SystemReturn
SpecEvery == Init /\ [][NextEvery]_vars

\* The live entities that are active
LiveActive == {h \in Live : active[h]}

SpecRun ==
    /\ Init /\ [][NextApp]_vars
    /\ WF_vars(Update) /\ WF_vars(Render) /\ WF_vars(Shutdown)

\* An event of the frame's handled events requests quit
QuitWasRequested ==
    \E i \in DOMAIN app.handled : RequestsQuit(ACur, app.handled[i])

\* What holds of quit_requested, the frame's events and shutdown in every state
QuitState ==
    /\ app.quit_requested <=> QuitWasRequested
    /\ app.pc \in {"update", "render", "shutdown", "done"} => app.handled = app.fetched
    /\ app.pc = "process_events" => ~app.quit_requested
    /\ app.pc \in {"shutdown", "done"} => app.quit_requested
    /\ app.shutdowns = IF app.pc = "done" THEN 1 ELSE 0

\* What holds of every step: quit_requested is not reset, the frame runs
\* its update and its render, and shutdown comes after a render only
QuitStep ==
    /\ app.quit_requested => app'.quit_requested
    /\ app.pc = "update" => app'.pc \in {"update", "render"}
    /\ (app'.pc = "render" /\ app.pc # "render") => app.pc = "update"
    /\ (app'.pc = "shutdown" /\ app.pc # "shutdown") => app.pc = "render"
    /\ (app.quit_requested /\ app.pc = "render") => app'.pc \in {"render", "shutdown"}

\* C36: quit_requested is true exactly when a QUIT event, or a KEYDOWN of
\* Escape with escape_quits set, was handled, and is never reset; the frame
\* that sets it handles all its events and runs update and render; no
\* frame starts after it; shutdown() runs once, after the loop; and after a
\* quit request run() comes to its end.
C36_RunEndsAfterQuitRequest ==
    /\ []QuitState
    /\ [][QuitStep]_vars
    /\ (app.quit_requested ~> app.pc = "done")

\* run() has ended: QUIT came first of two events of a frame, the "e" key
\* after it was still handed on, update() was called and shutdown ran once.
C36_Witness ==
    /\ app.pc = "done" /\ app.shutdowns = 1 /\ app.quit_requested
    /\ Len(app.handled) = 2
    /\ app.handled[1].type = "QUIT"
    /\ app.handled[2] = InputEvent("KEYDOWN", "K_e", "", <<0, 0>>)
    /\ is_key_pressed(input, "K_e")
    /\ inputLog.recent[Len(inputLog.recent)] = UpdateCall

\* The answer of EnteredAfter for notes that are not paired
Unpaired == MaxScenes + 1

\* The scene that is entered after the on_enter / on_exit calls of notes
\* (None if no scene is), or Unpaired if a scene was entered while another
\* was, or left while it was not entered
RECURSIVE EnteredAfter(_)
EnteredAfter(notes) ==
    IF notes = <<>> THEN None
    ELSE LET before == EnteredAfter(SubSeq(notes, 1, Len(notes) - 1))
             n      == notes[Len(notes)]
         IN IF before = Unpaired THEN Unpaired
            ELSE IF n.note = "on_enter"
            THEN (IF before = None THEN n.scene ELSE Unpaired)
            ELSE (IF before = n.scene THEN None ELSE Unpaired)

\* C37: over the set_scene calls of a run and its shutdown, at most one
\* scene is entered at a time, a scene is left before the next is entered,
\* the entered scene is the current scene, and once the application has shut
\* down every scene that was entered has been left, once per entry.
C37_SceneEnterExitPaired ==
    /\ EnteredAfter(app.notes) # Unpaired
    /\ app.pc # "done" => EnteredAfter(app.notes) = app.current_scene
    /\ app.pc = "done" => EnteredAfter(app.notes) = None

\* The application has shut down after scene 1 was set before run() and
\* replaced by scene 2 during an update: enter 1, exit 1, enter 2, exit 2.
C37_Witness ==
    /\ app.pc = "done"
    /\ app.notes = << [note |-> "on_enter", scene |-> 1], [note |-> "on_exit", scene |-> 1],
                      [note |-> "on_enter", scene |-> 2], [note |-> "on_exit", scene |-> 2] >>

\* ------------------------------------------------------------ stale handles
\* Entities are created, mutated and destroyed, and the handles of destroyed
\* entities are used on
NextStale ==
    \/ CreateEntity(MaxStaleEntities)
    \/ AddComponent
    \/ AddTag
    \/ SetActive
    \/ Destroy
    \/ StaleAddComponent
    \/ StaleAddTag
    \/ StaleSetActive
    \/ StaleDestroy
SpecStale == Init /\ [][NextStale]_vars

\* C31: whatever is called on the handle of a destroyed entity, the entity
\* is in no registry entry, in no type index, in no tag index and in no
\* query result.
C31_DestroyedEntityStaysOut ==
    \A h \in destroyed :
        /\ \A i \in DOMAIN registry : registry[i] # h
        /\ \A T \in Types : entityId[h] \notin typeIndex[T]
        /\ \A tag \in Tags : entityId[h] \notin tagIndex[tag]
        /\ \A S \in SUBSET Types, include_inactive \in BOOLEAN :
              h \notin query(Cur, S, include_inactive)

\* ----------------------------------------------------------- hooks that mutate
\* Entities carry a component whose on_remove hook works on the entity
NextHook ==
    \/ CreateEntity(MaxHookEntities)
    \/ AddComponent
    \/ RemoveComponent
    \/ DestroyHookMutates
SpecHook == Init /\ [][NextHook]_vars

\* C32: when destroy() of an entity has returned, the entity's component
\* mapping is empty and no type index lists the entity, also when an
\* on_remove hook that ran during the call removed another component of the
\* entity or attached a component to it.
C32_DestroyedEntityHoldsNothing ==
    (last.op = "destroy" /\ last.raised = "") =>
        /\ components[last.h] = <<>>
        /\ \A T \in Types : entityId[last.h] \notin typeIndex[T]
====
